---- MODULE Spec2Model ----
(***************************************************************************)
(* Call-session relay and scheduling engine of the AI receptionist.        *)
(*                                                                         *)
(* Two flavours of the scheduling engine exist in the repository:          *)
(*   "web"    src/src/lib/services/booking.js (webhook flow)               *)
(*   "stream" the copies inside the two websocket stream handlers          *)
(*            (mediaStreamHandler.js, exotelStreamHandler.js; the two      *)
(*            copies are the same code up to indentation).                 *)
(*                                                                         *)
(* Time.  An instant is a number of minutes since 1970-01-01T00:00Z.  A    *)
(* date string "YYYY-MM-DD" is the day number since 1970-01-01, a clock    *)
(* string "HH:MM" is the pair <<hour, minute>>.  A time zone is its offset *)
(* from UTC in minutes (America/New_York in winter is -300).               *)
(***************************************************************************)
EXTENDS Integers, Sequences, FiniteSets, TLC

VARIABLES
    serverTz,       \* time zone of the Node process (local time of `new Date(str)`)
    businesses,     \* table businesses: tenant id -> row
    blackout,       \* table blackout_dates: set of <<business_id, date>>
    appointments,   \* table appointments: set of rows
    customers,      \* table customers: set of rows
    calls,          \* table calls: call id -> row
    task,           \* the scheduling calls in flight: caller -> frame of the async function
    env,            \* one stream connection: provider, OPENAI_API_KEY, businessId of the URL
    socket,         \* the provider's websocket: "open", "closing", "closed"
    closure,        \* the `let` variables of handleMediaStream / handleExotelStream
    inflight,       \* the async handlers of the connection: handler -> frame
    finalWrites,    \* number of calls.update({ended_at, transcript}) statements executed
    toModel,        \* the messages sent on openaiWs, in the order of the sends
    toProvider,     \* the frames sent on the provider's socket, in the order of the sends
    dispatch,       \* the function-call handlers of openaiWs.on('message'), by arrival
    mediaLog,       \* the provider's media frames by arrival: forwarded or dropped
    audioCount,     \* number of audio events (delta, done) received from the model
    sequenceNumber, \* `let sequenceNumber` of each Exotel connection
    replaced        \* the model connections that openaiWs no longer references

schedVars == <<serverTz, businesses, blackout, appointments, customers, calls, task>>
relayVars == <<toModel, toProvider, dispatch, mediaLog, audioCount, sequenceNumber,
               replaced>>
sessionVars == <<env, socket, closure, inflight, finalWrites, relayVars>>
vars == <<schedVars, sessionVars>>

Null == "null"

(***************************************************************************)
(* Bounds of the model.                                                    *)
(***************************************************************************)
MaxAppointments == 2        \* rows ever inserted into appointments

(***************************************************************************)
(* Program constants.                                                      *)
(***************************************************************************)
DefaultSlotDuration == 30   \* business.slot_duration_minutes || 30
DefaultBuffer == 10         \* business.buffer_minutes || 10
DefaultAptDuration == 30    \* apt.duration_minutes || 30
ColumnDefaultDuration == 30 \* appointments.duration_minutes INT NOT NULL DEFAULT 30
MinutesPerDay == 24 * 60

(***************************************************************************)
(* Clock strings and dates.                                                *)
(***************************************************************************)
\* `${String(h).padStart(2,'0')}:${String(m).padStart(2,'0')}` of a minute count
FormatHM(mins) == <<mins \div 60, mins % 60>>

\* str.split(':').map(Number), then hour * 60 + minute
ParseHM(str) == str[1] * 60 + str[2]

\* new Date(`${date}T${time}:00`): a date-time string without offset is read
\* in the local time zone of the process
ParseLocal(tz, date, str) == date * MinutesPerDay + ParseHM(str) - tz

\* new Date("YYYY-MM-DD"): a date-only string is read as UTC midnight
ParseDateOnly(date) == date * MinutesPerDay

\* Date.prototype.getDay(): weekday (0 = sunday) of the instant in local time;
\* 1970-01-01 was a thursday
GetDay(tz, instant) == (((instant + tz) \div MinutesPerDay) + 4) % 7

\* a date-time string without offset compared with / stored into a TIMESTAMPTZ
\* column: the store reads it in its session time zone, UTC
DbTimestamp(date, mins) == date * MinutesPerDay + mins

\* fromZonedTime(new Date(localDateTime), timezone): the local clock fields of
\* the Date are taken as wall time in `timezone`
FromZonedTime(tz, instant, timezone) == (instant + tz) - timezone

\* JavaScript's  x || d  on numbers: 0 is falsy (a null column is modelled as 0)
JsOr(x, d) == IF x = 0 THEN d ELSE x

(***************************************************************************)
(* check_availability.                                                     *)
(***************************************************************************)
\* .eq('business_id', b).gte('scheduled_at', `${date}T00:00:00`)
\* .lte('scheduled_at', `${date}T23:59:59`).in('status', ['confirmed','pending'])
DayAppointments(store, businessId, date) ==
    {a \in store : /\ a.business_id = businessId
                   /\ a.scheduled_at >= DbTimestamp(date, 0)
                   /\ a.scheduled_at <= DbTimestamp(date, 23 * 60 + 59)
                   /\ a.status \in {"confirmed", "pending"}}

\* the half-open interval test of one slot against one row
Overlaps(slotStart, slotEnd, aptStart, aptEnd) ==
    slotStart < aptEnd /\ slotEnd > aptStart

\* appointments?.some(apt => ...)
HasConflict(rows, date, timeStr, slotDuration) ==
    LET slotStart == ParseLocal(serverTz, date, timeStr)
        slotEnd == slotStart + slotDuration
    IN  \E apt \in rows :
            LET aptStart == apt.scheduled_at
                aptEnd == aptStart + JsOr(apt.duration_minutes, DefaultAptDuration)
            IN  Overlaps(slotStart, slotEnd, aptStart, aptEnd)

\* while (currentMinutes + slotDuration <= endMinutes)
FitsWindow(currentMinutes, slotDuration, endMinutes) ==
    currentMinutes + slotDuration <= endMinutes

\* a step that leaves the buffer out: the grid C8 would have without it
NextSlotStartNoBuffer(currentMinutes, slotDuration, buffer) ==
    currentMinutes + slotDuration

\* currentMinutes += slotDuration + buffer
NextSlotStart(currentMinutes, slotDuration, buffer) ==
    currentMinutes + slotDuration + buffer

\* the slot loop: the list of "HH:MM" strings pushed, in order
RECURSIVE SlotWalk(_, _, _, _, _, _)
SlotWalk(rows, date, currentMinutes, endMinutes, slotDuration, buffer) ==
    IF FitsWindow(currentMinutes, slotDuration, endMinutes)
    THEN (IF HasConflict(rows, date, FormatHM(currentMinutes), slotDuration)
          THEN <<>>
          ELSE <<FormatHM(currentMinutes)>>)
         \o SlotWalk(rows, date, NextSlotStart(currentMinutes, slotDuration, buffer),
                     endMinutes, slotDuration, buffer)
    ELSE <<>>

\* a blackout lookup keyed by another tenant's id: the walk it leads to shows
\* what C9 rests on
BlackoutRowOtherTenant(businessId, date) ==
    \E b \in {"b1", "b2"} \ {businessId} : <<b, date>> \in blackout

\* .from('blackout_dates').eq('business_id', b).eq('date', date).single()
BlackoutRow(businessId, date) == <<businessId, date>> \in blackout

\* the part of checkAvailability after the closed-day test
GenerateSlots(store, businessId, date, dayHours) ==
    LET business == businesses[businessId]
        rows == DayAppointments(store, businessId, date)
        slotDuration == JsOr(business.slot_duration_minutes, DefaultSlotDuration)
        buffer == JsOr(business.buffer_minutes, DefaultBuffer)
        slots == SlotWalk(rows, date, ParseHM(dayHours.start), ParseHM(dayHours.end),
                          slotDuration, buffer)
    IN  [available |-> Len(slots) > 0,
         date |-> date,
         slots |-> slots,
         message |-> IF Len(slots) > 0 THEN "Available times" ELSE "No available slots"]

\* booking.js checkAvailability(businessId, dateStr) against the table `store`
CheckAvailability(store, businessId, dateStr) ==
    IF businessId \notin DOMAIN businesses
    THEN [error |-> "Business not found", available |-> FALSE, slots |-> <<>>]
    ELSE IF BlackoutRow(businessId, dateStr)
    THEN [available |-> FALSE, message |-> "closed on this date", slots |-> <<>>]
    ELSE LET dayOfWeek == GetDay(serverTz, ParseDateOnly(dateStr))
             hours == businesses[businessId].working_hours
         IN  IF dayOfWeek \notin DOMAIN hours \/ ~hours[dayOfWeek].enabled
             THEN [available |-> FALSE, message |-> "closed on this day", slots |-> <<>>]
             ELSE GenerateSlots(store, businessId, dateStr, hours[dayOfWeek])

\* Date.prototype.toLocaleDateString('en-US', { weekday: option }): the option
\* must be one of narrow, short, long; any other value throws a RangeError.
\* A valid option yields the English day name ("Monday"), never a key of
\* working_hours (whose keys are lower case).
ToLocaleWeekday(option, instant) ==
    IF option \in {"narrow", "short", "long"}
    THEN [threw |-> FALSE, name |-> <<"en-US", option, GetDay(serverTz, instant)>>]
    ELSE [threw |-> TRUE]

\* stream handlers' checkAvailability(businessId, date): the try block, with
\* the catch clause's result where the body throws
StreamCheckAvailability(store, businessId, date) ==
    IF businessId \notin DOMAIN businesses
    THEN [error |-> "Business not found"]
    ELSE IF BlackoutRow(businessId, date)
    THEN [available |-> FALSE, message |-> "closed on this date", slots |-> <<>>]
    ELSE LET dayOfWeek == ToLocaleWeekday("lowercase", ParseDateOnly(date))
         IN  IF dayOfWeek.threw
             THEN [error |-> "Failed to check availability"]
             ELSE \* business.working_hours?.[dayOfWeek] with a key it does not hold
                  [available |-> FALSE, message |-> "closed on this day", slots |-> <<>>]

(***************************************************************************)
(* The tables' initial contents and the inputs of the operations.          *)
(***************************************************************************)
BusinessIds == {"b1", "b2"}            \* the tenants
UnknownBusiness == "b0"                \* an id no row of businesses has
Dates == {4, 5}                        \* 1970-01-05 (monday), 1970-01-06 (tuesday)
Times == {<<9, 0>>, <<19, 0>>}         \* "09:00", "19:00"
CallIds == {"c1"}
NoDate == 0 - 1                        \* the optional argument `date` left out
NoId == <<>>                           \* a null id; the id of a row is <<table, n>>

Zones == {<<0, 0>>, <<0, 0 - 300>>, <<0 - 300, 0 - 300>>}   \* <<server, tenant>>

DayRow(start, end, enabled) == [start |-> start, end |-> end, enabled |-> enabled]

\* the column default of businesses.working_hours
WeekDefault ==
    [d \in 0..6 |-> IF d \in 1..5 THEN DayRow(<<9, 0>>, <<17, 0>>, TRUE)
                                  ELSE DayRow(<<10, 0>>, <<14, 0>>, FALSE)]

\* a tenant open late on mondays, closed on tuesdays, with no entry for sunday
WeekLate ==
    [d \in 1..6 |-> IF d = 1 THEN DayRow(<<11, 0>>, <<20, 0>>, TRUE)
                             ELSE DayRow(<<11, 0>>, <<20, 0>>, FALSE)]

BusinessRows(timezone) ==
    {[working_hours |-> w, slot_duration_minutes |-> sb[1], buffer_minutes |-> sb[2],
      timezone |-> timezone] :
        w \in {WeekDefault, WeekLate}, sb \in {<<30, 10>>, <<30, 0>>}}

NoResult == [pending |-> TRUE]

IdleFrame ==
    [pc |-> "idle", op |-> Null, flavor |-> Null, business_id |-> Null,
     date |-> NoDate, time |-> <<>>, customer_phone |-> Null, customer_name |-> Null,
     call_id |-> Null, customer_id |-> NoId, appointment_id |-> NoId,
     pre |-> {}, pre_customers |-> {}, result |-> NoResult]

\* a row of calls as insert leaves it: outcome DEFAULT 'inquiry', ended_at and
\* transcript null; call_sid is the provider's call id (twilio_call_sid,
\* exotel_call_sid), here that of an earlier call
OtherCallSid == "CA0"
CallRow == [outcome |-> "inquiry", ended_at |-> Null, transcript |-> <<>>,
            call_sid |-> OtherCallSid]

Handlers == {"start", "stop", "close"}
\* the connection of the model and a second connection open at the same time
Connections == {"conn1", "conn2"}
IdleHandler == [pc |-> "idle", transcript |-> <<>>]

\* the state of a connection when handleMediaStream / handleExotelStream returns
SessionIdle(e) ==
    /\ env = e
    /\ socket = "open"
    /\ closure = [streamSid |-> Null, callSid |-> Null, businessId |-> e.urlBusinessId,
                  business |-> Null, callId |-> Null, openaiWs |-> Null,
                  transcript |-> <<>>]
    /\ inflight = [h \in Handlers |-> IdleHandler]
    /\ finalWrites = 0
    /\ toModel = <<>>
    /\ toProvider = <<>>
    /\ dispatch = <<>>
    /\ mediaLog = <<>>
    /\ audioCount = 0
    /\ sequenceNumber = [c \in Connections |-> 0]
    /\ replaced = <<>>

Envs ==
    [provider : {"twilio", "exotel"}, OPENAI_API_KEY : BOOLEAN,
     urlBusinessId : {Null, "b1", UnknownBusiness}]

SchedInit(callerSet) ==
    /\ \E z \in Zones :
        /\ serverTz = z[1]
        /\ \E row \in BusinessRows(z[2]) : businesses = [b \in BusinessIds |-> row]
    /\ blackout \in {{}, {<<"b1", 5>>}}
    /\ appointments = {}
    /\ customers = {}
    /\ calls = [c \in CallIds |-> CallRow]
    /\ task = [p \in callerSet |-> IdleFrame]
    /\ SessionIdle([provider |-> "twilio", OPENAI_API_KEY |-> TRUE, urlBusinessId |-> "b1"])

(***************************************************************************)
(* Frames.                                                                 *)
(***************************************************************************)
Callers == DOMAIN task

\* bookings that have been called and have not inserted their row yet
Booking(p) == task[p].op = "book_appointment" /\ task[p].pc # "done"

CanBook(max) ==
    Cardinality(appointments) + Cardinality({p \in Callers : Booking(p)}) < max

Finish(p, result) ==
    task' = [task EXCEPT ![p].pc = "done", ![p].result = result]

\* the caller takes the returned value
Return(p) ==
    /\ task[p].pc = "done"
    /\ task' = [task EXCEPT ![p] = IdleFrame]
    /\ UNCHANGED <<sessionVars, serverTz, businesses, blackout, appointments, customers, calls>>

(***************************************************************************)
(* check_availability, both flavours: one read of appointments.           *)
(***************************************************************************)
DoCheckAvailability(p, flavor, businessId, date) ==
    /\ task[p].pc = "idle"
    /\ task' = [task EXCEPT ![p] =
            [IdleFrame EXCEPT !.pc = "done", !.op = "check_availability",
                              !.flavor = flavor, !.business_id = businessId,
                              !.date = date, !.pre = appointments,
                              !.result = IF flavor = "web"
                                         THEN CheckAvailability(appointments, businessId, date)
                                         ELSE StreamCheckAvailability(appointments, businessId, date)]]
    /\ UNCHANGED <<sessionVars, serverTz, businesses, blackout, appointments, customers, calls>>

(***************************************************************************)
(* book_appointment of booking.js ("web").  Each action runs the function  *)
(* up to its next await on a table that another call can write.            *)
(***************************************************************************)
Includes(seq, x) == \E i \in 1..Len(seq) : seq[i] = x

\* .from('customers').select('id').eq('business_id', b).eq('phone', ph).single():
\* the rows matched; .single() yields a row only when exactly one matches
CustomerRows(businessId, phone) ==
    {c \in customers : c.business_id = businessId /\ c.phone = phone}

NewCustomerId == <<"customer", Cardinality(customers) + 1>>
NewAppointmentId == <<"appointment", Cardinality(appointments) + 1>>

\* the availability re-check: availability.slots.includes(time)
StillAvailable(store, businessId, date, time) ==
    Includes(CheckAvailability(store, businessId, date).slots, time)

\* bookAppointment(businessId, {customer_name, customer_phone, date, time}) up to
\* the result of the re-check
WebBookCall(p, businessId, date, time, phone, name) ==
    /\ task[p].pc = "idle"
    /\ LET frame == [IdleFrame EXCEPT !.op = "book_appointment", !.flavor = "web",
                                      !.business_id = businessId, !.date = date,
                                      !.time = time, !.customer_phone = phone,
                                      !.customer_name = name, !.pre = appointments,
                                      !.pre_customers = customers]
       IN  IF ~StillAvailable(appointments, businessId, date, time)
           THEN task' = [task EXCEPT ![p] =
                    [frame EXCEPT !.pc = "done",
                                  !.result = [success |-> FALSE,
                                              error |-> "no longer available"]]]
           ELSE task' = [task EXCEPT ![p] = [frame EXCEPT !.pc = "select_customer"]]
    /\ UNCHANGED <<sessionVars, serverTz, businesses, blackout, appointments, customers, calls>>

\* the select of the existing customer
WebSelectCustomer(p) ==
    /\ task[p].pc = "select_customer" /\ task[p].flavor = "web"
    /\ LET rows == CustomerRows(task[p].business_id, task[p].customer_phone)
       IN  IF Cardinality(rows) = 1
           THEN task' = [task EXCEPT ![p].customer_id = (CHOOSE c \in rows : TRUE).id,
                                     ![p].pc = "update_customer"]
           ELSE task' = [task EXCEPT ![p].pc = "insert_customer"]
    /\ UNCHANGED <<sessionVars, serverTz, businesses, blackout, appointments, customers, calls>>

\* .update({ name: customer_name }).eq('id', customerId)
WebUpdateCustomer(p) ==
    /\ task[p].pc = "update_customer" /\ task[p].flavor = "web"
    /\ customers' = {IF c.id = task[p].customer_id
                     THEN [c EXCEPT !.name = task[p].customer_name] ELSE c : c \in customers}
    /\ task' = [task EXCEPT ![p].pc = "insert_appointment"]
    /\ UNCHANGED <<sessionVars, serverTz, businesses, blackout, appointments, calls>>

\* the insert into customers; UNIQUE(business_id, phone) rejects a second row,
\* business_id REFERENCES businesses rejects the row of an unknown tenant, and
\* the rejected insert yields no row
InsertCustomer(p) ==
    IF \/ CustomerRows(task[p].business_id, task[p].customer_phone) # {}
       \/ task[p].business_id \notin DOMAIN businesses
    THEN /\ customers' = customers
         /\ task' = [task EXCEPT ![p].customer_id = NoId, ![p].pc = "insert_appointment"]
    ELSE /\ customers' = customers \cup
                {[id |-> NewCustomerId, business_id |-> task[p].business_id,
                  phone |-> task[p].customer_phone, name |-> task[p].customer_name]}
         /\ task' = [task EXCEPT ![p].customer_id = NewCustomerId,
                                 ![p].pc = "insert_appointment"]

WebInsertCustomer(p) ==
    /\ task[p].pc = "insert_customer" /\ task[p].flavor = "web"
    /\ InsertCustomer(p)
    /\ UNCHANGED <<sessionVars, serverTz, businesses, blackout, appointments, calls>>

\* scheduledAt = fromZonedTime(new Date(`${date}T${time}:00`), timezone).toISOString()
WebScheduledAt(businessId, date, time) ==
    FromZonedTime(serverTz, ParseLocal(serverTz, date, time), businesses[businessId].timezone)

\* the insert into appointments and the returned value
WebInsertAppointment(p) ==
    /\ task[p].pc = "insert_appointment" /\ task[p].flavor = "web"
    /\ LET f == task[p]
           row == [id |-> NewAppointmentId,
                   business_id |-> f.business_id,
                   customer_id |-> f.customer_id,
                   call_id |-> Null,
                   customer_name |-> f.customer_name,
                   customer_phone |-> f.customer_phone,
                   scheduled_at |-> WebScheduledAt(f.business_id, f.date, f.time),
                   duration_minutes |-> JsOr(businesses[f.business_id].slot_duration_minutes,
                                             DefaultSlotDuration),
                   status |-> "confirmed"]
       IN  /\ appointments' = appointments \cup {row}
           /\ task' = [task EXCEPT ![p].pc = "done", ![p].appointment_id = row.id,
                                   ![p].result = [success |-> TRUE,
                                                  message |-> "Appointment confirmed",
                                                  appointment |-> row]]
    /\ UNCHANGED <<sessionVars, serverTz, businesses, blackout, customers, calls>>

(***************************************************************************)
(* bookAppointment of the stream handlers ("stream").                     *)
(***************************************************************************)
\* bookAppointment(businessId, callId, args) up to the result of the customer select
StreamBookCall(p, businessId, callId, date, time, phone, name) ==
    /\ task[p].pc = "idle"
    /\ LET frame == [IdleFrame EXCEPT !.op = "book_appointment", !.flavor = "stream",
                                      !.business_id = businessId, !.date = date,
                                      !.time = time, !.customer_phone = phone,
                                      !.customer_name = name, !.call_id = callId,
                                      !.pre = appointments, !.pre_customers = customers]
           rows == CustomerRows(businessId, phone)
       IN  IF Cardinality(rows) = 1
           THEN task' = [task EXCEPT ![p] =
                    [frame EXCEPT !.customer_id = (CHOOSE c \in rows : TRUE).id,
                                  !.pc = "insert_appointment"]]
           ELSE task' = [task EXCEPT ![p] = [frame EXCEPT !.pc = "insert_customer"]]
    /\ UNCHANGED <<sessionVars, serverTz, businesses, blackout, appointments, customers, calls>>

StreamInsertCustomer(p) ==
    /\ task[p].pc = "insert_customer" /\ task[p].flavor = "stream"
    /\ InsertCustomer(p)
    /\ UNCHANGED <<sessionVars, serverTz, businesses, blackout, appointments, calls>>

\* scheduled_at: `${date}T${time}:00`, read by the store
StreamScheduledAt(date, time) == DbTimestamp(date, ParseHM(time))

StreamBookSuccess(id) ==
    [success |-> TRUE, message |-> "Appointment confirmed", appointment_id |-> id]

\* the insert into appointments (no duration_minutes: the column default)
StreamInsertAppointment(p) ==
    /\ task[p].pc = "insert_appointment" /\ task[p].flavor = "stream"
    /\ LET f == task[p]
           row == [id |-> NewAppointmentId,
                   business_id |-> f.business_id,
                   customer_id |-> f.customer_id,
                   call_id |-> f.call_id,
                   customer_name |-> f.customer_name,
                   customer_phone |-> f.customer_phone,
                   scheduled_at |-> StreamScheduledAt(f.date, f.time),
                   duration_minutes |-> ColumnDefaultDuration,
                   status |-> "confirmed"]
       IN  IF f.business_id \notin DOMAIN businesses
           THEN \* business_id NOT NULL REFERENCES businesses: `if (error)`
                /\ appointments' = appointments
                /\ Finish(p, [success |-> FALSE, error |-> "Failed to book appointment"])
           ELSE /\ appointments' = appointments \cup {row}
                /\ IF f.call_id # Null
                   THEN task' = [task EXCEPT ![p].pc = "update_outcome",
                                             ![p].appointment_id = row.id]
                   ELSE task' = [task EXCEPT ![p].pc = "done",
                                             ![p].appointment_id = row.id,
                                             ![p].result = StreamBookSuccess(row.id)]
    /\ UNCHANGED <<sessionVars, serverTz, businesses, blackout, customers, calls>>

\* .from('calls').update({ outcome: 'booked', ... }).eq('id', callId)
StreamUpdateOutcome(p) ==
    /\ task[p].pc = "update_outcome" /\ task[p].flavor = "stream"
    /\ calls' = [c \in DOMAIN calls |->
                    IF c = task[p].call_id THEN [calls[c] EXCEPT !.outcome = "booked"]
                                           ELSE calls[c]]
    /\ Finish(p, StreamBookSuccess(task[p].appointment_id))
    /\ UNCHANGED <<sessionVars, serverTz, businesses, blackout, appointments, customers>>

(***************************************************************************)
(* cancel_appointment: one update statement.                               *)
(***************************************************************************)
\* the rows the update matches
CancelMatches(store, businessId, phone, date) ==
    {a \in store : /\ a.business_id = businessId
                   /\ a.customer_phone = phone
                   /\ a.status = "confirmed"
                   /\ date # NoDate =>
                        /\ a.scheduled_at >= DbTimestamp(date, 0)
                        /\ a.scheduled_at <= DbTimestamp(date, 23 * 60 + 59)}

Cancelled(store, rows) ==
    {IF a \in rows THEN [a EXCEPT !.status = "cancelled"] ELSE a : a \in store}

\* booking.js cancelAppointment(businessId, { customer_phone, date })
WebCancelAppointment(p, businessId, phone, date) ==
    /\ task[p].pc = "idle"
    /\ LET rows == CancelMatches(appointments, businessId, phone, date)
       IN  /\ appointments' = Cancelled(appointments, rows)
           /\ task' = [task EXCEPT ![p] =
                [IdleFrame EXCEPT !.pc = "done", !.op = "cancel_appointment",
                                  !.flavor = "web", !.business_id = businessId,
                                  !.customer_phone = phone, !.date = date,
                                  !.pre = appointments,
                                  !.result = IF rows = {}
                                             THEN [success |-> FALSE,
                                                   error |-> "No appointment found to cancel"]
                                             ELSE [success |-> TRUE,
                                                   message |-> "Cancelled",
                                                   cancelled |-> Cancelled(rows, rows)]]]
    /\ UNCHANGED <<sessionVars, serverTz, businesses, blackout, customers, calls>>

\* the stream handlers' cancelAppointment(businessId, args), called by
\* handleToolCall whose context holds callId and does not pass it on
StreamCancelAppointment(p, businessId, callId, phone, date) ==
    /\ task[p].pc = "idle"
    /\ LET rows == CancelMatches(appointments, businessId, phone, date)
       IN  /\ appointments' = Cancelled(appointments, rows)
           /\ task' = [task EXCEPT ![p] =
                [IdleFrame EXCEPT !.pc = "done", !.op = "cancel_appointment",
                                  !.flavor = "stream", !.business_id = businessId,
                                  !.call_id = callId,
                                  !.customer_phone = phone, !.date = date,
                                  !.pre = appointments,
                                  !.result = IF rows = {}
                                             THEN [success |-> FALSE,
                                                   message |-> "No appointment found to cancel"]
                                             ELSE [success |-> TRUE,
                                                   message |-> "Appointment cancelled successfully",
                                                   cancelled_count |-> Cardinality(rows)]]]
    /\ UNCHANGED <<sessionVars, serverTz, businesses, blackout, customers, calls>>

(***************************************************************************)
(* reschedule_appointment of booking.js: cancel, then book.                *)
(***************************************************************************)
\* rescheduleAppointment(businessId, {customer_phone, oldDate, newDate, newTime})
\* up to the result of cancelAppointment: the update statement, the return of
\* its failure, and cancelled[0] (whichever row the store returns first) as
\* the source of the customer's name
RescheduleCall(p, businessId, phone, oldDate, newDate, newTime) ==
    /\ task[p].pc = "idle"
    /\ LET rows == CancelMatches(appointments, businessId, phone, oldDate)
           frame == [IdleFrame EXCEPT !.op = "reschedule_appointment", !.flavor = "web",
                                      !.business_id = businessId, !.date = newDate,
                                      !.time = newTime, !.customer_phone = phone,
                                      !.pre = appointments, !.pre_customers = customers]
       IN  /\ appointments' = Cancelled(appointments, rows)
           /\ IF rows = {}
              THEN task' = [task EXCEPT ![p] =
                        [frame EXCEPT !.pc = "done",
                                      !.result = [success |-> FALSE,
                                                  error |-> "No appointment found to cancel"]]]
              ELSE \E cancelled \in rows :
                        task' = [task EXCEPT ![p] =
                            [frame EXCEPT !.pc = "rebook",
                                          !.customer_name = cancelled.customer_name]]
    /\ UNCHANGED <<sessionVars, serverTz, businesses, blackout, customers, calls>>

\* bookAppointment called by rescheduleAppointment, up to the result of its
\* availability check; its failure is returned as it is (the restore of the
\* cancelled appointment is a TODO comment).  The steps that follow are those
\* of bookAppointment; rescheduleAppointment returns its appointment.
RescheduleRebook(p) ==
    /\ task[p].pc = "rebook"
    /\ IF ~StillAvailable(appointments, task[p].business_id, task[p].date, task[p].time)
       THEN Finish(p, [success |-> FALSE, error |-> "no longer available"])
       ELSE task' = [task EXCEPT ![p].pc = "select_customer"]
    /\ UNCHANGED <<sessionVars, serverTz, businesses, blackout, appointments, customers, calls>>

(***************************************************************************)
(* The scheduling engine under calls that run one at a time: one tenant,   *)
(* one customer.                                                           *)
(***************************************************************************)
Init == SchedInit({1})

Next ==
    \/ \E p \in Callers, f \in {"web", "stream"}, b \in {"b1", UnknownBusiness}, d \in Dates :
            DoCheckAvailability(p, f, b, d)
    \/ \E p \in Callers, d \in Dates, t \in Times :
            CanBook(MaxAppointments) /\ WebBookCall(p, "b1", d, t, "p1", "n1")
    \/ \E p \in Callers : WebSelectCustomer(p)
    \/ \E p \in Callers : WebUpdateCustomer(p)
    \/ \E p \in Callers : WebInsertCustomer(p)
    \/ \E p \in Callers : WebInsertAppointment(p)
    \/ \E p \in Callers, c \in CallIds \cup {Null}, d \in Dates, t \in Times :
            CanBook(MaxAppointments) /\ StreamBookCall(p, "b1", c, d, t, "p1", "n1")
    \/ \E p \in Callers : StreamInsertCustomer(p)
    \/ \E p \in Callers : StreamInsertAppointment(p)
    \/ \E p \in Callers : StreamUpdateOutcome(p)
    \/ \E p \in Callers, d \in Dates \cup {NoDate} : WebCancelAppointment(p, "b1", "p1", d)
    \/ \E p \in Callers, d \in Dates \cup {NoDate} : StreamCancelAppointment(p, "b1", "c1", "p1", d)
    \/ \E p \in Callers : Return(p)

Spec == Init /\ [][Next]_vars

\* two callers of booking.js on one database
RaceInit == SchedInit({1, 2})

RaceNext ==
    \/ \E p \in Callers, d \in Dates, t \in Times :
            CanBook(MaxAppointments) /\ WebBookCall(p, "b1", d, t, "p1", "n1")
    \/ \E p \in Callers : WebSelectCustomer(p)
    \/ \E p \in Callers : WebUpdateCustomer(p)
    \/ \E p \in Callers : WebInsertCustomer(p)
    \/ \E p \in Callers : WebInsertAppointment(p)
    \/ \E p \in Callers : Return(p)

SpecRace == RaceInit /\ [][RaceNext]_vars

\* one caller of booking.js that books and reschedules
RescheduleNext ==
    \/ \E p \in Callers, d \in Dates, t \in Times :
            CanBook(MaxAppointments) /\ WebBookCall(p, "b1", d, t, "p1", "n1")
    \/ \E p \in Callers, old \in Dates \cup {NoDate}, d \in Dates, t \in Times :
            CanBook(MaxAppointments) /\ RescheduleCall(p, "b1", "p1", old, d, t)
    \/ \E p \in Callers : RescheduleRebook(p)
    \/ \E p \in Callers : WebSelectCustomer(p)
    \/ \E p \in Callers : WebUpdateCustomer(p)
    \/ \E p \in Callers : WebInsertCustomer(p)
    \/ \E p \in Callers : WebInsertAppointment(p)
    \/ \E p \in Callers : Return(p)

SpecReschedule == Init /\ [][RescheduleNext]_vars

\* the tool calls of one stream session that change the outcome of its call:
\* a session that holds the id of its call record and one that holds none
OutcomeInit ==
    /\ serverTz = 0
    /\ businesses = [b \in BusinessIds |->
                        [timezone |-> 0, slot_duration_minutes |-> 30,
                         buffer_minutes |-> 10, working_hours |-> WeekDefault]]
    /\ blackout = {}
    /\ appointments = {}
    /\ customers = {}
    /\ calls = [c \in CallIds |-> CallRow]
    /\ task = [p \in {1} |-> IdleFrame]
    /\ SessionIdle([provider |-> "twilio", OPENAI_API_KEY |-> TRUE, urlBusinessId |-> "b1"])

OutcomeNext ==
    \/ \E p \in Callers, b \in {"b1", UnknownBusiness}, c \in CallIds \cup {Null},
          d \in Dates :
            CanBook(MaxAppointments) /\ StreamBookCall(p, b, c, d, <<9, 0>>, "p1", "n1")
    \/ \E p \in Callers : StreamInsertCustomer(p)
    \/ \E p \in Callers : StreamInsertAppointment(p)
    \/ \E p \in Callers : StreamUpdateOutcome(p)
    \/ \E p \in Callers, c \in CallIds \cup {Null}, d \in Dates \cup {NoDate} :
            StreamCancelAppointment(p, "b1", c, "p1", d)
    \/ \E p \in Callers : Return(p)

SpecOutcome == OutcomeInit /\ [][OutcomeNext]_vars

\* one caller booking for two phones under two names (both flavours)
Phones == {"p1", "p2"}
Names == {"n1", "n2"}

CustomerInit ==
    /\ serverTz = 0
    /\ businesses = [b \in BusinessIds |->
                        [timezone |-> 0, slot_duration_minutes |-> 30,
                         buffer_minutes |-> 10, working_hours |-> WeekDefault]]
    /\ blackout = {}
    /\ appointments = {}
    /\ customers = {}
    /\ calls = [c \in CallIds |-> CallRow]
    /\ task = [p \in {1} |-> IdleFrame]
    /\ SessionIdle([provider |-> "twilio", OPENAI_API_KEY |-> TRUE, urlBusinessId |-> "b1"])

CustomerNext ==
    \/ \E p \in Callers, d \in Dates, phone \in Phones, name \in Names :
            CanBook(MaxAppointments) /\ WebBookCall(p, "b1", d, <<9, 0>>, phone, name)
    \/ \E p \in Callers : WebSelectCustomer(p)
    \/ \E p \in Callers : WebUpdateCustomer(p)
    \/ \E p \in Callers : WebInsertCustomer(p)
    \/ \E p \in Callers : WebInsertAppointment(p)
    \/ \E p \in Callers, d \in Dates, phone \in Phones, name \in Names :
            CanBook(MaxAppointments) /\ StreamBookCall(p, "b1", Null, d, <<9, 0>>, phone, name)
    \/ \E p \in Callers : StreamInsertCustomer(p)
    \/ \E p \in Callers : StreamInsertAppointment(p)
    \/ \E p \in Callers : Return(p)

SpecCustomer == CustomerInit /\ [][CustomerNext]_vars

(***************************************************************************)
(* One stream connection (handleMediaStream, handleExotelStream).  Each    *)
(* action runs a handler from one await to the next.                       *)
(***************************************************************************)
StreamSid == "MZ1"
CallSid == "CA1"
SessionCallId == "c2"                  \* the id the database gives the inserted row
SecondCallId == "c3"                   \* and the id of a second row of the session
Roles == {"assistant", "user"}
MaxTranscript == 1                     \* transcript entries of one call

SetHandler(h, pc) == inflight' = [inflight EXCEPT ![h].pc = pc]

\* a teardown that leaves the model connection as it is
KeepModel(ws) == ws

\* openaiWs.close() behind `if (openaiWs)`
CloseModel(ws) == IF ws = Null THEN Null ELSE "closed"

\* case 'start', up to the first await
ProviderStart(custom) ==
    /\ socket = "open" /\ inflight["start"].pc = "idle"
    /\ LET businessId ==
            IF env.provider = "exotel" /\ closure.businessId = Null /\ custom # Null
            THEN custom ELSE closure.businessId
       IN  /\ closure' = [closure EXCEPT !.streamSid = StreamSid, !.callSid = CallSid,
                                         !.businessId = businessId]
           /\ SetHandler("start", IF businessId # Null THEN "fetch_business"
                                                       ELSE "insert_call")
    /\ UNCHANGED <<relayVars, schedVars, env, socket, finalWrites>>

\* business = bizData
StartFetchBusiness ==
    /\ inflight["start"].pc = "fetch_business"
    /\ closure' = [closure EXCEPT !.business =
                        IF closure.businessId \in DOMAIN businesses
                        THEN closure.businessId ELSE Null]
    /\ SetHandler("start", "insert_call")
    /\ UNCHANGED <<relayVars, schedVars, env, socket, finalWrites>>

\* the id the database gives the row of the insert
NewCallId == IF SessionCallId \in DOMAIN calls THEN SecondCallId ELSE SessionCallId

\* the insert into calls, then the code up to `break`: the model connection.
\* calls.business_id is NOT NULL REFERENCES businesses: the insert of a session
\* without a known tenant fails.
StartInsertCall(ok) ==
    /\ inflight["start"].pc = "insert_call"
    /\ ok => closure.businessId \in DOMAIN businesses
    /\ calls' = IF ok THEN [c \in DOMAIN calls \cup {NewCallId} |->
                                IF c = NewCallId
                                THEN [CallRow EXCEPT !.call_sid = closure.callSid]
                                ELSE calls[c]]
                      ELSE calls
    /\ IF env.provider = "exotel" /\ ~env.OPENAI_API_KEY
       THEN /\ socket' = IF socket = "closed" THEN "closed" ELSE "closing"
            /\ closure' = [closure EXCEPT !.callId = IF ok THEN NewCallId ELSE @]
            /\ replaced' = replaced
       ELSE /\ socket' = socket
            /\ closure' = [closure EXCEPT !.callId = IF ok THEN NewCallId ELSE @,
                                          !.openaiWs = "connecting"]
            \* openaiWs = new WebSocket(...): the object it referenced before is
            \* neither closed nor kept
            /\ replaced' = IF closure.openaiWs # Null
                           THEN Append(replaced, closure.openaiWs) ELSE replaced
    /\ SetHandler("start", "done")
    /\ UNCHANGED <<toModel, toProvider, dispatch, mediaLog, audioCount, sequenceNumber,
                   serverTz, businesses, blackout, appointments, customers, task,
                   env, finalWrites>>

\* the two messages of openaiWs.on('open')
SessionUpdate(business) ==
    [type |-> "session.update", instructions |-> business, origin |-> 0]
Greeting == [type |-> "response.create", origin |-> 0]

\* the greeting ahead of the configuration
GreetingFirst(business) == <<Greeting, SessionUpdate(business)>>

\* the two sends of openaiWs.on('open'), in the order of the code
OpenDirectives(business) == <<SessionUpdate(business), Greeting>>

\* openaiWs.on('open'); the endpoint refuses a connection that carries no key
\* (`Bearer undefined`), which then errors and closes without opening
ModelOpen ==
    /\ closure.openaiWs = "connecting" /\ env.OPENAI_API_KEY
    /\ closure' = [closure EXCEPT !.openaiWs = "open"]
    /\ toModel' = toModel \o OpenDirectives(closure.business)
    /\ UNCHANGED <<schedVars, env, socket, inflight, finalWrites,
                   toProvider, dispatch, mediaLog, audioCount, sequenceNumber, replaced>>

\* response.audio_transcript.done / input_audio_transcription.completed
ModelTranscript(role) ==
    /\ closure.openaiWs = "open" /\ Len(closure.transcript) < MaxTranscript
    /\ closure' = [closure EXCEPT !.transcript = Append(@, role)]
    /\ UNCHANGED <<relayVars, schedVars, env, socket, inflight, finalWrites>>

\* openaiWs.on('close') / openaiWs.on('error'): the handlers only log
ModelClosed ==
    /\ closure.openaiWs \in {"connecting", "open"}
    /\ closure' = [closure EXCEPT !.openaiWs = "closed"]
    /\ UNCHANGED <<relayVars, schedVars, env, socket, inflight, finalWrites>>

\* new Date().toISOString() at the n-th final update of the session: the clock
\* has moved on between two updates
Now(n) == IF n = 1 THEN "t1" ELSE "t2"

\* the statement calls.update({ended_at, transcript}).eq('id', callId)
FinalUpdate(h) ==
    /\ calls' = [c \in DOMAIN calls |->
                    IF c = closure.callId
                    THEN [calls[c] EXCEPT !.ended_at = Now(finalWrites + 1),
                                          !.transcript = inflight[h].transcript]
                    ELSE calls[c]]
    /\ finalWrites' = finalWrites + 1

\* case 'stop', up to the await
ProviderStop ==
    /\ socket = "open" /\ inflight["stop"].pc = "idle"
    /\ IF closure.callId # Null
       THEN /\ inflight' = [inflight EXCEPT !["stop"] =
                                [pc |-> "update_call", transcript |-> closure.transcript]]
            /\ closure' = closure
       ELSE /\ SetHandler("stop", "done")
            /\ closure' = [closure EXCEPT !.openaiWs = CloseModel(@)]
    /\ UNCHANGED <<relayVars, schedVars, env, socket, finalWrites>>

\* the update of case 'stop', then openaiWs.close()
StopUpdateCall ==
    /\ inflight["stop"].pc = "update_call"
    /\ FinalUpdate("stop")
    /\ closure' = [closure EXCEPT !.openaiWs = CloseModel(@)]
    /\ SetHandler("stop", "done")
    /\ UNCHANGED <<relayVars, serverTz, businesses, blackout, appointments, customers, task,
                   env, socket>>

\* socket.on('close'), up to the await
SocketClose ==
    /\ socket # "closed" /\ inflight["close"].pc = "idle"
    /\ socket' = "closed"
    /\ closure' = [closure EXCEPT !.openaiWs = CloseModel(@)]
    /\ inflight' = [inflight EXCEPT !["close"] =
                        IF closure.callId # Null
                        THEN [pc |-> "update_call", transcript |-> closure.transcript]
                        ELSE [pc |-> "done", transcript |-> <<>>]]
    /\ UNCHANGED <<relayVars, schedVars, env, finalWrites>>

\* the update of socket.on('close')
CloseUpdateCall ==
    /\ inflight["close"].pc = "update_call"
    /\ FinalUpdate("close")
    /\ SetHandler("close", "done")
    /\ UNCHANGED <<relayVars, serverTz, businesses, blackout, appointments, customers, task,
                   env, socket, closure>>

(***************************************************************************)
(* The relay: audio in both directions and the function calls of the      *)
(* model.  `origin` of a message to the model is the handler invocation   *)
(* that sent it (0: not a function-call handler).                         *)
(***************************************************************************)
MaxMedia == 2          \* media frames the provider sends
MaxAudio == 2          \* audio events (delta, done) the model sends
MaxCalls == 2          \* function calls the model issues
MaxPeerFrames == 1     \* frames the second connection sends

Self == "conn1"
Peer == "conn2"

\* one counter of the module, shared by the connections
SequenceCellShared(conn) == Self

\* the counter a connection increments: `let sequenceNumber` of its own closure
SequenceCell(conn) == conn

\* a connection object exists, whatever its readyState
IsPresent(ws) == ws # Null

\* openaiWs && openaiWs.readyState === WebSocket.OPEN
IsOpen(ws) == ws = "open"

\* some function-call handler is suspended at `await handleToolCall(...)`
Waiting == \E k \in DOMAIN dispatch : dispatch[k].pc = "waiting"

\* a handler that would wait for its result without yielding
EventLoopBlocked == ~Waiting

\* the await suspends only its own handler: the event loop runs the handlers
\* of other messages while a dispatch waits
EventLoopFree == TRUE

\* a send that puts the frames ahead of the earlier ones
SendProviderFirst(frames) ==
    toProvider' = IF socket = "open" THEN frames \o toProvider ELSE toProvider

\* socket.send(frame): nothing leaves a socket that is not open
SendProvider(frames) ==
    toProvider' = IF socket = "open" THEN toProvider \o frames ELSE toProvider

\* case 'media' of the provider, for a frame that carries audio; mediaLog
\* records the state of openaiWs at the moment the frame is handled
ProviderMedia ==
    /\ socket = "open" /\ Len(mediaLog) < MaxMedia /\ EventLoopFree
    /\ mediaLog' = Append(mediaLog, closure.openaiWs)
    /\ toModel' = IF IsOpen(closure.openaiWs)
                  THEN Append(toModel, [type |-> "input_audio_buffer.append",
                                        audio |-> Len(mediaLog) + 1, origin |-> 0])
                  ELSE toModel
    /\ UNCHANGED <<schedVars, env, socket, closure, inflight, finalWrites,
                   toProvider, dispatch, audioCount, sequenceNumber, replaced>>

\* case 'response.audio.delta'; delta = "" is an event without audio
ModelAudioDelta(delta) ==
    /\ closure.openaiWs = "open" /\ audioCount < MaxAudio /\ EventLoopFree
    /\ audioCount' = audioCount + 1
    /\ IF delta = ""
       THEN UNCHANGED <<toProvider, sequenceNumber>>
       ELSE IF env.provider = "exotel"
       THEN /\ sequenceNumber' = [sequenceNumber EXCEPT ![SequenceCell(Self)] = @ + 1]
            /\ SendProvider(<<[event |-> "media",
                               sequence_number |-> sequenceNumber'[SequenceCell(Self)],
                               stream_sid |-> closure.streamSid,
                               chunk |-> audioCount']>>)
       ELSE /\ sequenceNumber' = sequenceNumber
            /\ SendProvider(<<[event |-> "media", streamSid |-> closure.streamSid,
                               payload |-> audioCount']>>)
    /\ UNCHANGED <<schedVars, env, socket, closure, inflight, finalWrites,
                   toModel, dispatch, mediaLog, replaced>>

\* case 'response.audio.done': the Exotel handler sends a mark, the Twilio
\* handler has no such case
ModelAudioDone ==
    /\ closure.openaiWs = "open" /\ audioCount < MaxAudio /\ EventLoopFree
    /\ audioCount' = audioCount + 1
    /\ IF env.provider = "exotel"
       THEN /\ sequenceNumber' = [sequenceNumber EXCEPT ![SequenceCell(Self)] = @ + 1]
            /\ SendProvider(<<[event |-> "mark",
                               sequence_number |-> sequenceNumber'[SequenceCell(Self)],
                               stream_sid |-> closure.streamSid,
                               mark |-> audioCount']>>)
       ELSE UNCHANGED <<toProvider, sequenceNumber>>
    /\ UNCHANGED <<schedVars, env, socket, closure, inflight, finalWrites,
                   toModel, dispatch, mediaLog, replaced>>

\* an outbound frame of the second Exotel connection
PeerAudio ==
    /\ sequenceNumber[SequenceCell(Peer)] < MaxPeerFrames
    /\ sequenceNumber' = [sequenceNumber EXCEPT ![SequenceCell(Peer)] = @ + 1]
    /\ UNCHANGED <<schedVars, env, socket, closure, inflight, finalWrites,
                   toModel, toProvider, dispatch, mediaLog, audioCount, replaced>>

\* handleToolCall(toolName, args, context)
HandleToolCall(name, date) ==
    IF name = "check_availability"
    THEN StreamCheckAvailability(appointments, closure.businessId, date)
    ELSE IF name = "transfer_to_human"
    THEN [success |-> TRUE, message |-> "Transferring to human staff. Please hold."]
    ELSE [error |-> "Unknown tool"]

\* case 'response.function_call_arguments.done', up to the await
ModelFunctionCall(name, date) ==
    /\ closure.openaiWs = "open" /\ Len(dispatch) < MaxCalls /\ EventLoopFree
    /\ dispatch' = Append(dispatch, [call_id |-> <<"call", Len(dispatch) + 1>>,
                                     name |-> name, date |-> date,
                                     pc |-> "waiting", result |-> NoResult,
                                     ws |-> Null])
    /\ UNCHANGED <<schedVars, env, socket, closure, inflight, finalWrites,
                   toModel, toProvider, mediaLog, audioCount, sequenceNumber, replaced>>

\* the call id of the event that arrived last
LatestCallId(k) == dispatch[Len(dispatch)].call_id

\* call_id: response.call_id, `response` being the const of handler invocation k
OutputCallId(k) == dispatch[k].call_id

\* the directive ahead of the item it belongs to
DirectiveFirst(k, result) ==
    <<[type |-> "response.create", origin |-> k],
      [type |-> "conversation.item.create", call_id |-> OutputCallId(k),
       output |-> result, origin |-> k]>>

\* the two sends after the await: the function_call_output item, then
\* response.create
FunctionOutput(k, result) ==
    <<[type |-> "conversation.item.create", call_id |-> OutputCallId(k),
       output |-> result, origin |-> k],
      [type |-> "response.create", origin |-> k]>>

\* the result of handleToolCall, then the two sends of invocation k
DispatchResolve(k) ==
    /\ k \in DOMAIN dispatch /\ dispatch[k].pc = "waiting"
    /\ LET result == HandleToolCall(dispatch[k].name, dispatch[k].date)
       IN  /\ dispatch' = [dispatch EXCEPT ![k].pc = "done", ![k].result = result,
                                                ![k].ws = closure.openaiWs]
           /\ toModel' = IF IsOpen(closure.openaiWs)
                         THEN toModel \o FunctionOutput(k, result)
                         ELSE toModel
    /\ UNCHANGED <<schedVars, env, socket, closure, inflight, finalWrites,
                   toProvider, mediaLog, audioCount, sequenceNumber, replaced>>

RelayInit ==
    /\ serverTz = 0
    /\ businesses = [b \in BusinessIds |->
                        [timezone |-> 0, slot_duration_minutes |-> 30,
                         buffer_minutes |-> 10, working_hours |-> WeekDefault]]
    /\ blackout = {<<"b1", 5>>}
    /\ appointments = {}
    /\ customers = {}
    /\ calls = [c \in CallIds |-> CallRow]
    /\ task = [p \in {} |-> IdleFrame]
    /\ \E provider \in {"twilio", "exotel"} :
            SessionIdle([provider |-> provider, OPENAI_API_KEY |-> TRUE,
                         urlBusinessId |-> "b1"])

\* the function calls of the model: name and the date argument
ToolCalls ==
    {<<"check_availability", 4>>, <<"check_availability", 5>>,
     <<"transfer_to_human", NoDate>>, <<"get_weather", NoDate>>}

\* audio in both directions
AudioNext ==
    \/ ProviderStart(Null)
    \/ StartFetchBusiness
    \/ \E ok \in BOOLEAN : StartInsertCall(ok)
    \/ ModelOpen
    \/ ModelClosed
    \/ ProviderMedia
    \/ \E delta \in {"", "audio"} : ModelAudioDelta(delta)
    \/ ModelAudioDone
    \/ ProviderStop
    \/ StopUpdateCall
    \/ SocketClose
    \/ CloseUpdateCall

SpecAudio == RelayInit /\ [][AudioNext]_vars

\* outbound frames of two connections
SequenceNext ==
    \/ ProviderStart(Null)
    \/ StartFetchBusiness
    \/ \E ok \in BOOLEAN : StartInsertCall(ok)
    \/ ModelOpen
    \/ ModelClosed
    \/ \E delta \in {"", "audio"} : ModelAudioDelta(delta)
    \/ ModelAudioDone
    \/ PeerAudio
    \/ ProviderStop
    \/ StopUpdateCall
    \/ SocketClose
    \/ CloseUpdateCall

SpecSequence == RelayInit /\ [][SequenceNext]_vars

\* the function calls of the model
DispatchNext ==
    \/ ProviderStart(Null)
    \/ StartFetchBusiness
    \/ \E ok \in BOOLEAN : StartInsertCall(ok)
    \/ ModelOpen
    \/ ModelClosed
    \/ \E call \in ToolCalls : ModelFunctionCall(call[1], call[2])
    \/ \E k \in 1..MaxCalls : DispatchResolve(k)
    \/ ProviderStop
    \/ StopUpdateCall
    \/ SocketClose
    \/ CloseUpdateCall

SpecDispatch == RelayInit /\ [][DispatchNext]_vars

\* audio that arrives while a function call waits for the scheduling engine
BusyNext ==
    \/ ProviderStart(Null)
    \/ StartFetchBusiness
    \/ \E ok \in BOOLEAN : StartInsertCall(ok)
    \/ ModelOpen
    \/ ModelClosed
    \/ ModelFunctionCall("check_availability", 4)
    \/ \E k \in 1..MaxCalls : DispatchResolve(k)
    \/ Waiting /\ ProviderMedia
    \/ Waiting /\ ModelAudioDelta("audio")
    \/ ProviderStop
    \/ StopUpdateCall
    \/ SocketClose
    \/ CloseUpdateCall

SpecBusy == RelayInit /\ [][BusyNext]_vars

(***************************************************************************)
(* Function calls whose arguments cannot be read.                          *)
(***************************************************************************)
\* case 'response.function_call_arguments.done' for an event whose arguments
\* are not valid JSON: JSON.parse(response.arguments) throws ahead of
\* handleToolCall and the catch of the message handler logs it.  (The same
\* happens for the arguments "null": args.date throws in handleToolCall.)
ModelFunctionCallBadArguments(name) ==
    /\ closure.openaiWs = "open" /\ Len(dispatch) < MaxCalls /\ EventLoopFree
    /\ dispatch' = Append(dispatch, [call_id |-> <<"call", Len(dispatch) + 1>>,
                                     name |-> name, date |-> NoDate,
                                     pc |-> "threw", result |-> NoResult,
                                     ws |-> closure.openaiWs])
    /\ UNCHANGED <<schedVars, env, socket, closure, inflight, finalWrites,
                   toModel, toProvider, mediaLog, audioCount, sequenceNumber, replaced>>

AnswerNext ==
    \/ ProviderStart(Null)
    \/ StartFetchBusiness
    \/ \E ok \in BOOLEAN : StartInsertCall(ok)
    \/ ModelOpen
    \/ ModelClosed
    \/ \E call \in ToolCalls : ModelFunctionCall(call[1], call[2])
    \/ ModelFunctionCallBadArguments("check_availability")
    \/ \E k \in 1..MaxCalls : DispatchResolve(k)
    \/ ProviderStop
    \/ StopUpdateCall
    \/ SocketClose
    \/ CloseUpdateCall

SpecAnswer == RelayInit /\ [][AnswerNext]_vars

(***************************************************************************)
(* One call from its start to its teardown: the lifecycle, audio, messages *)
(* that are not well formed, and call-record writes that fail.             *)
(***************************************************************************)
\* the update of case 'stop' returns an error (supabase-js resolves with
\* {error}, it does not throw); then openaiWs.close()
StopUpdateFails ==
    /\ inflight["stop"].pc = "update_call"
    /\ closure' = [closure EXCEPT !.openaiWs = CloseModel(@)]
    /\ SetHandler("stop", "done")
    /\ UNCHANGED <<relayVars, schedVars, env, socket, finalWrites>>

\* the update of socket.on('close') returns an error
CloseUpdateFails ==
    /\ inflight["close"].pc = "update_call"
    /\ SetHandler("close", "done")
    /\ UNCHANGED <<relayVars, schedVars, env, socket, closure, finalWrites>>

\* a provider message that JSON.parse rejects: the catch logs it
ProviderUnparseable ==
    /\ socket = "open"
    /\ UNCHANGED vars

Undefined == "undefined"

\* {"event": "start"} without the start object.  Twilio: data.start.streamSid
\* throws and the catch logs it.  Exotel: data.start?.stream_sid || data.stream_sid
\* and data.start?.call_sid are undefined and case 'start' goes on.
ProviderStartNoBody ==
    /\ socket = "open" /\ inflight["start"].pc = "idle"
    /\ IF env.provider = "twilio"
       THEN UNCHANGED <<closure, inflight>>
       ELSE /\ closure' = [closure EXCEPT !.streamSid = Undefined, !.callSid = Undefined]
            /\ SetHandler("start", IF closure.businessId # Null THEN "fetch_business"
                                                               ELSE "insert_call")
    /\ UNCHANGED <<relayVars, schedVars, env, socket, finalWrites>>

\* a model message that JSON.parse rejects: the catch logs it
ModelUnparseable ==
    /\ closure.openaiWs = "open"
    /\ UNCHANGED vars

\* a transcript event without its transcript field:
\* transcript.push({ role, content: response.transcript })
ModelTranscriptNoText(role) ==
    /\ closure.openaiWs = "open" /\ Len(closure.transcript) < MaxTranscript
    /\ closure' = [closure EXCEPT !.transcript =
                        Append(@, IF role = "assistant" THEN "assistant: undefined"
                                                        ELSE "user: undefined")]
    /\ UNCHANGED <<relayVars, schedVars, env, socket, inflight, finalWrites>>

CallInit ==
    /\ serverTz = 0
    /\ businesses = [b \in BusinessIds |->
                        [timezone |-> 0, slot_duration_minutes |-> 30,
                         buffer_minutes |-> 10, working_hours |-> WeekDefault]]
    /\ blackout = {}
    /\ appointments = {}
    /\ customers = {}
    /\ calls = [c \in CallIds |-> CallRow]
    /\ task = [p \in {} |-> IdleFrame]
    /\ \E provider \in {"twilio", "exotel"}, key \in BOOLEAN :
            SessionIdle([provider |-> provider, OPENAI_API_KEY |-> key,
                         urlBusinessId |-> "b1"])

CallNext ==
    \/ ProviderStart(Null)
    \/ ProviderStartNoBody
    \/ ProviderUnparseable
    \/ StartFetchBusiness
    \/ \E ok \in BOOLEAN : StartInsertCall(ok)
    \/ ModelOpen
    \/ ModelUnparseable
    \/ \E role \in Roles : ModelTranscript(role)
    \/ \E role \in Roles : ModelTranscriptNoText(role)
    \/ ModelClosed
    \/ ProviderMedia
    \/ ModelAudioDelta("audio")
    \/ ProviderStop
    \/ StopUpdateCall
    \/ StopUpdateFails
    \/ SocketClose
    \/ CloseUpdateCall
    \/ CloseUpdateFails

SpecCall == CallInit /\ [][CallNext]_vars

\* the continuation of a handler that awaits the database runs once the
\* database has answered; the provider, the caller and the model are not
\* obliged to send anything
HandlersResume ==
    /\ WF_vars(StartFetchBusiness)
    /\ WF_vars(\E ok \in BOOLEAN : StartInsertCall(ok))
    /\ WF_vars(StopUpdateCall \/ StopUpdateFails)
    /\ WF_vars(CloseUpdateCall \/ CloseUpdateFails)

SpecCallFair == CallInit /\ [][CallNext]_vars /\ HandlersResume

(***************************************************************************)
(* A provider that sends a second start event on the same connection.     *)
(***************************************************************************)
MaxRestarts == 1       \* start events after the first

\* case 'start' again, after the handler of the earlier start has finished
ProviderRestart(custom) ==
    /\ socket = "open" /\ inflight["start"].pc = "done"
    /\ Len(replaced) < MaxRestarts
    /\ LET businessId ==
            IF env.provider = "exotel" /\ closure.businessId = Null /\ custom # Null
            THEN custom ELSE closure.businessId
       IN  /\ closure' = [closure EXCEPT !.streamSid = StreamSid, !.callSid = CallSid,
                                         !.businessId = businessId]
           /\ SetHandler("start", IF businessId # Null THEN "fetch_business"
                                                       ELSE "insert_call")
    /\ UNCHANGED <<relayVars, schedVars, env, socket, finalWrites>>

\* the 'open' event of a replaced connection: its handler sends on the
\* connection that the variable openaiWs references now
ReplacedOpen(i) ==
    /\ i \in DOMAIN replaced /\ replaced[i] = "connecting" /\ env.OPENAI_API_KEY
    /\ replaced' = [replaced EXCEPT ![i] = "open"]
    /\ toModel' = IF IsOpen(closure.openaiWs)
                  THEN toModel \o OpenDirectives(closure.business) ELSE toModel
    /\ UNCHANGED <<schedVars, env, socket, closure, inflight, finalWrites,
                   toProvider, dispatch, mediaLog, audioCount, sequenceNumber>>

\* the endpoint closes a replaced connection
ReplacedClosed(i) ==
    /\ i \in DOMAIN replaced /\ replaced[i] \in {"connecting", "open"}
    /\ replaced' = [replaced EXCEPT ![i] = "closed"]
    /\ UNCHANGED <<schedVars, env, socket, closure, inflight, finalWrites,
                   toModel, toProvider, dispatch, mediaLog, audioCount, sequenceNumber>>

RestartNext ==
    \/ ProviderStart(Null)
    \/ ProviderRestart(Null)
    \/ StartFetchBusiness
    \/ \E ok \in BOOLEAN : StartInsertCall(ok)
    \/ ModelOpen
    \/ ModelClosed
    \/ \E i \in 1..MaxRestarts : ReplacedOpen(i)
    \/ \E i \in 1..MaxRestarts : ReplacedClosed(i)
    \/ ProviderStop
    \/ StopUpdateCall
    \/ SocketClose
    \/ CloseUpdateCall

SpecRestart == RelayInit /\ [][RestartNext]_vars

(***************************************************************************)
(* A call that reaches the stream through the incoming-call webhook.       *)
(***************************************************************************)
WebhookCallId == "c0"                  \* the id the database gives the webhook's row

\* POST /api/voice/incoming, ahead of every event of the stream: the tenant is
\* found by its number, a row of calls is inserted with the provider's call
\* id, and the TwiML that connects the stream carries the tenant's id
IncomingCall ==
    /\ env.provider = "twilio" /\ env.urlBusinessId \in DOMAIN businesses
    /\ socket = "open" /\ \A h \in Handlers : inflight[h].pc = "idle"
    /\ WebhookCallId \notin DOMAIN calls
    /\ calls' = [c \in DOMAIN calls \cup {WebhookCallId} |->
                    IF c = WebhookCallId THEN [CallRow EXCEPT !.call_sid = CallSid]
                                         ELSE calls[c]]
    /\ UNCHANGED <<sessionVars, serverTz, businesses, blackout, appointments, customers,
                   task>>

\* handleToolCall, case 'book_appointment': bookAppointment(businessId, callId,
\* args) with the tenant and the call record id of the session
SessionBookCall(date) ==
    /\ closure.openaiWs = "open" /\ CanBook(MaxAppointments)
    /\ StreamBookCall(1, closure.businessId, closure.callId, date, <<9, 0>>, "p1", "n1")

WebhookInit ==
    /\ serverTz = 0
    /\ businesses = [b \in BusinessIds |->
                        [timezone |-> 0, slot_duration_minutes |-> 30,
                         buffer_minutes |-> 10, working_hours |-> WeekDefault]]
    /\ blackout = {}
    /\ appointments = {}
    /\ customers = {}
    /\ calls = [c \in CallIds |-> CallRow]
    /\ task = [p \in {1} |-> IdleFrame]
    /\ \E provider \in {"twilio", "exotel"} :
            SessionIdle([provider |-> provider, OPENAI_API_KEY |-> TRUE,
                         urlBusinessId |-> "b1"])

\* the insert of case 'start' meets the webhook's row: with UNIQUE
\* (twilio_call_sid) in force it is rejected, after the migration that drops
\* the constraint it adds a row; both are outcomes of StartInsertCall
WebhookNext ==
    \/ IncomingCall
    \/ ProviderStart(Null)
    \/ StartFetchBusiness
    \/ \E ok \in BOOLEAN : StartInsertCall(ok)
    \/ ModelOpen
    \/ \E role \in Roles : ModelTranscript(role)
    \/ ModelClosed
    \/ \E d \in Dates : SessionBookCall(d)
    \/ \E p \in Callers : StreamInsertCustomer(p)
    \/ \E p \in Callers : StreamInsertAppointment(p)
    \/ \E p \in Callers : StreamUpdateOutcome(p)
    \/ \E p \in Callers : Return(p)
    \/ ProviderStop
    \/ StopUpdateCall
    \/ SocketClose
    \/ CloseUpdateCall

SpecWebhook == WebhookInit /\ [][WebhookNext]_vars

SessionInit ==
    /\ serverTz = 0
    /\ businesses = [b \in BusinessIds |->
                        [timezone |-> 0, slot_duration_minutes |-> 30,
                         buffer_minutes |-> 10, working_hours |-> WeekDefault]]
    /\ blackout = {}
    /\ appointments = {}
    /\ customers = {}
    /\ calls = [c \in CallIds |-> CallRow]
    /\ task = [p \in {} |-> IdleFrame]
    /\ \E e \in Envs : SessionIdle(e)

SessionNext ==
    \/ \E custom \in {Null, "b1"} : ProviderStart(custom)
    \/ StartFetchBusiness
    \/ \E ok \in BOOLEAN : StartInsertCall(ok)
    \/ ModelOpen
    \/ \E role \in Roles : ModelTranscript(role)
    \/ ModelClosed
    \/ ProviderStop
    \/ StopUpdateCall
    \/ SocketClose
    \/ CloseUpdateCall

SpecSession == SessionInit /\ [][SessionNext]_vars

\* C1: the final write of the call record (ended_at, transcript) is performed
\* at most once in a session, also when the provider's stop event and the
\* close of the socket both occur.
C1_FinalWriteOnce == finalWrites <= 1

(***************************************************************************)
(* Vocabulary of the properties.                                           *)
(***************************************************************************)
\* the weekday of a calendar date (0 = sunday)
Weekday(date) == (date + 4) % 7

\* the rows of a tenant that occupy time
ActiveRows(store, businessId) ==
    {a \in store : a.business_id = businessId /\ a.status \in {"confirmed", "pending"}}

RowsOverlap(x, y) ==
    /\ x.scheduled_at < y.scheduled_at + y.duration_minutes
    /\ x.scheduled_at + x.duration_minutes > y.scheduled_at

CheckDone(f) == f.op = "check_availability" /\ f.pc = "done"
BookDone(f) == f.op = "book_appointment" /\ f.pc = "done"

\* the availability result the flavour of frame f computes on the table `store`
Availability(f, store) ==
    IF f.flavor = "web" THEN CheckAvailability(store, f.business_id, f.date)
                        ELSE StreamCheckAvailability(store, f.business_id, f.date)

Listed(result, time) == "slots" \in DOMAIN result /\ Includes(result.slots, time)

\* C2: no two confirmed or pending appointments of one tenant overlap
\* (half-open intervals [start, start + duration)).
C2_NoOverlap ==
    \A b \in BusinessIds : \A x, y \in ActiveRows(appointments, b) :
        x.id # y.id => ~RowsOverlap(x, y)

\* p and q are bookings of the same tenant, date and time whose re-checks read
\* the same table: neither saw the row of the other
Concurrent(p, q) ==
    /\ p # q /\ BookDone(task[p]) /\ BookDone(task[q])
    /\ task[p].business_id = task[q].business_id
    /\ task[p].date = task[q].date /\ task[p].time = task[q].time
    /\ task[p].pre = task[q].pre

\* C3: of two concurrent book_appointment calls for the same tenant, date and
\* time at most one returns success, and at most one row is inserted.
C3_AtMostOneSucceeds ==
    \A p, q \in Callers :
        Concurrent(p, q)
            => /\ ~(task[p].result.success /\ task[q].result.success)
               /\ Cardinality(appointments \ task[p].pre) <= 1

\* C4: a book_appointment for a (date, time) that a freshly computed
\* availability result does not list returns the failure "no longer
\* available" and inserts no row.
C4_UnavailableRefused ==
    \A p \in Callers :
        (BookDone(task[p]) /\ ~Listed(Availability(task[p], task[p].pre), task[p].time))
            => /\ task[p].result.success = FALSE
               /\ "error" \in DOMAIN task[p].result
               /\ task[p].result.error = "no longer available"
               /\ appointments = task[p].pre

\* the slot grid of a working window: start + k * (duration + buffer), the slot
\* ending inside the window
OnGrid(dayHours, duration, buffer, mins) ==
    /\ mins >= ParseHM(dayHours.start)
    /\ (mins - ParseHM(dayHours.start)) % (duration + buffer) = 0
    /\ mins + duration <= ParseHM(dayHours.end)

\* (date, time) is a slot of the tenant's grid on an enabled working day that
\* is not a blackout date
WithinBusinessHours(businessId, date, time) ==
    LET business == businesses[businessId]
        hours == business.working_hours
    IN  /\ <<businessId, date>> \notin blackout
        /\ Weekday(date) \in DOMAIN hours
        /\ hours[Weekday(date)].enabled
        /\ OnGrid(hours[Weekday(date)], business.slot_duration_minutes,
                  business.buffer_minutes, ParseHM(time))

\* C5: every appointment book_appointment creates is a slot of the tenant's
\* grid on an enabled working day that is not blacked out, and ends inside the
\* working window; any other request is refused.
C5_BusinessHoursBounded ==
    \A p \in Callers :
        (BookDone(task[p]) /\ task[p].result.success)
            => WithinBusinessHours(task[p].business_id, task[p].date, task[p].time)

\* C6: the slots of a result are window_start + k * (slot_duration + buffer)
\* for the configured duration and buffer (a configured buffer of 0
\* included), strictly increasing, each ending inside the window.
C6_SlotGrid ==
    \A p \in Callers :
        (CheckDone(task[p]) /\ Listed(task[p].result, task[p].result.slots[1]))
            => LET business == businesses[task[p].business_id]
                   slots == task[p].result.slots
               IN  /\ \E d \in DOMAIN business.working_hours :
                        \A i \in 1..Len(slots) :
                            OnGrid(business.working_hours[d], business.slot_duration_minutes,
                                   business.buffer_minutes, ParseHM(slots[i]))
                   /\ \A i, j \in 1..Len(slots) :
                        i < j => ParseHM(slots[i]) < ParseHM(slots[j])

\* the instant at which a slot of the tenant starts: the clock time of the date
\* in the tenant's time zone
SlotInstant(businessId, date, time) ==
    date * MinutesPerDay + ParseHM(time) - businesses[businessId].timezone

\* C7: no slot of a result overlaps a confirmed or pending appointment of the
\* tenant: not (S.start < A.end and S.end > A.start).
C7_SlotsAvoidAppointments ==
    \A p \in Callers :
        CheckDone(task[p]) /\ "slots" \in DOMAIN task[p].result
            => \A i \in 1..Len(task[p].result.slots) :
                \A a \in ActiveRows(appointments, task[p].business_id) :
                    LET start == SlotInstant(task[p].business_id, task[p].date,
                                             task[p].result.slots[i])
                        duration == businesses[task[p].business_id].slot_duration_minutes
                    IN  ~(start < a.scheduled_at + a.duration_minutes
                          /\ start + duration > a.scheduled_at)

\* the scenario of C8: 09:00-17:00 in force for the date, duration 30, buffer 10,
\* no existing appointment, the booking.js engine
C8_Scenario(f) ==
    /\ CheckDone(f) /\ f.flavor = "web" /\ f.business_id \in BusinessIds
    /\ LET business == businesses[f.business_id]
           open == DayRow(<<9, 0>>, <<17, 0>>, TRUE)
       IN  /\ business.slot_duration_minutes = 30
           /\ business.buffer_minutes = 10
           /\ business.working_hours[Weekday(f.date)] = open
           /\ business.working_hours[GetDay(serverTz, ParseDateOnly(f.date))] = open
    /\ <<f.business_id, f.date>> \notin blackout
    /\ ActiveRows(appointments, f.business_id) = {}

C9_BlackoutClosed ==
    \A p \in Callers :
        (CheckDone(task[p]) /\ <<task[p].business_id, task[p].date>> \in blackout)
            => /\ DOMAIN task[p].result = {"available", "message", "slots"}
               /\ task[p].result.available = FALSE
               /\ task[p].result.slots = <<>>

\* a blackout date whose weekday is enabled, asked while an appointment exists
C9_Witness ==
    \E p \in Callers :
        /\ CheckDone(task[p]) /\ <<task[p].business_id, task[p].date>> \in blackout
        /\ businesses[task[p].business_id].working_hours[Weekday(task[p].date)].enabled
        /\ ActiveRows(appointments, task[p].business_id) # {}

\* the date is closed for the tenant: blacked out, weekday disabled or without hours
ClosedDate(businessId, date) ==
    \/ <<businessId, date>> \in blackout
    \/ Weekday(date) \notin DOMAIN businesses[businessId].working_hours
    \/ ~businesses[businessId].working_hours[Weekday(date)].enabled

\* C10: every result carries a slots list, available = true only with a
\* non-empty list, and a closed date gives available = false, slots = [].
C10_Unambiguous ==
    \A p \in Callers :
        CheckDone(task[p])
            => /\ {"available", "slots"} \subseteq DOMAIN task[p].result
               /\ task[p].result.available => task[p].result.slots # <<>>
               /\ (task[p].business_id \in BusinessIds
                   /\ ClosedDate(task[p].business_id, task[p].date))
                    => task[p].result.available = FALSE /\ task[p].result.slots = <<>>

CancelDone(f) == f.op = "cancel_appointment" /\ f.pc = "done"

\* the calendar date, in the tenant's time zone, on which row a starts
LocalDate(a) == (a.scheduled_at + businesses[a.business_id].timezone) \div MinutesPerDay

\* the confirmed rows of the tenant with that phone that start on the date
\* (every date when none is given)
ShouldCancel(store, businessId, phone, date) ==
    {a \in store : /\ a.business_id = businessId
                   /\ a.customer_phone = phone
                   /\ a.status = "confirmed"
                   /\ date # NoDate => LocalDate(a) = date}

\* the number of cancelled rows a result reports
ReportedCount(result) ==
    IF "cancelled_count" \in DOMAIN result THEN result.cancelled_count
                                           ELSE Cardinality(result.cancelled)

\* C11: cancel_appointment fails when no confirmed appointment matches the
\* tenant, the phone and the optional date; it succeeds only when at least one
\* row became cancelled, and then reports the number of rows changed.
C11_CancelResult ==
    \A p \in Callers :
        CancelDone(task[p])
            => LET f == task[p]
                   changed == f.pre \ appointments
               IN  /\ ShouldCancel(f.pre, f.business_id, f.customer_phone, f.date) = {}
                        => f.result.success = FALSE
                   /\ f.result.success
                        => changed # {} /\ ReportedCount(f.result) = Cardinality(changed)

\* C12: cancel_appointment sets to cancelled exactly the confirmed rows of the
\* tenant with that phone that start on the date (when one is given), and
\* leaves every other row and every other table unchanged.
C12_CancelFrame ==
    [][\A p \in Callers :
        (task[p].pc = "idle" /\ task'[p].op = "cancel_appointment")
            => /\ appointments' =
                    Cancelled(appointments,
                              ShouldCancel(appointments, task'[p].business_id,
                                           task'[p].customer_phone, task'[p].date))
               /\ UNCHANGED <<businesses, blackout, customers, calls>>]_vars

\* the customer rows of a tenant with a phone
CustomersOf(store, businessId, phone) ==
    {c \in store : c.business_id = businessId /\ c.phone = phone}

\* C13: a booking whose phone already has a customer row of the tenant puts
\* that row's id on the appointment, creates no customer row and stores the
\* supplied name; a booking with an unknown phone creates exactly one row.
C13_CustomerUpsert ==
    \A p \in Callers :
        (BookDone(task[p]) /\ task[p].result.success)
            => LET f == task[p]
                   old == CustomersOf(f.pre_customers, f.business_id, f.customer_phone)
                   now == CustomersOf(customers, f.business_id, f.customer_phone)
               IN  IF old # {}
                   THEN /\ Cardinality(customers) = Cardinality(f.pre_customers)
                        /\ \A c \in old : f.customer_id = c.id
                        /\ \A a \in appointments :
                                a.id = f.appointment_id => a.customer_id = f.customer_id
                        /\ \A c \in now : c.id = f.customer_id /\ c.name = f.customer_name
                   ELSE /\ Cardinality(now) = 1
                        /\ Cardinality(customers) = Cardinality(f.pre_customers) + 1


\* ---- the relay: function calls ----

\* the positions of toModel that hold a function-output item / a directive of
\* handler invocation k
OutputItems(k) ==
    {i \in DOMAIN toModel : toModel[i].type = "conversation.item.create"
                            /\ toModel[i].origin = k}
Directives(k) ==
    {i \in DOMAIN toModel : toModel[i].type = "response.create"
                            /\ toModel[i].origin = k}

\* C14: every function-output item sent to the model carries the call id of
\* the function call whose result it contains, for every completion order of
\* calls that are in flight together and also when they name the same operation.
C14_CallIdCorrelation ==
    \A k \in DOMAIN dispatch : \A i \in OutputItems(k) :
        /\ toModel[i].output = dispatch[k].result
        /\ toModel[i].call_id = dispatch[k].call_id

\* two calls of the same operation were in flight together and the second was
\* answered first
C14_Witness ==
    /\ Len(dispatch) >= 2
    /\ dispatch[1].name = dispatch[2].name
    /\ dispatch[1].result # dispatch[2].result
    /\ \E i \in OutputItems(2) : \E j \in OutputItems(1) : i < j

\* the two sends of a handler invocation are adjacent and in order, and an
\* invocation sends them at most once
PairedSends ==
    \A k \in DOMAIN dispatch :
        /\ Cardinality(OutputItems(k)) <= 1
        /\ Cardinality(Directives(k)) = Cardinality(OutputItems(k))
        /\ \A i \in OutputItems(k) :
               /\ toModel[i].call_id = dispatch[k].call_id
               /\ i + 1 \in Directives(k)

\* C15, as in the specification: every completed dispatch has exactly one
\* function-output item and one response.create among the messages sent.
C15_ExactlyOnePerDispatch ==
    /\ PairedSends
    /\ \A k \in DOMAIN dispatch :
           dispatch[k].pc = "done" => Cardinality(OutputItems(k)) = 1

\* C15, amended: a dispatch that completes while the model connection is open
\* sends exactly one function-output item tied to its call id and, right after
\* it, exactly one response.create; a dispatch that completes when the model
\* connection is no longer open sends nothing; a waiting dispatch has sent
\* nothing.
C15_OnePairWhileOpen ==
    /\ PairedSends
    /\ \A k \in DOMAIN dispatch :
           Cardinality(OutputItems(k)) =
               IF dispatch[k].pc = "done" /\ dispatch[k].ws = "open" THEN 1 ELSE 0

\* two dispatches were answered, and one completed after the model connection
\* was closed
C15_Witness ==
    /\ Len(dispatch) >= 2
    /\ \E k \in DOMAIN dispatch : dispatch[k].pc = "done" /\ dispatch[k].ws = "closed"
    /\ \E k \in DOMAIN dispatch : OutputItems(k) # {}

\* ---- the relay: audio ----

\* C16: while a function call waits for its result, a media frame of the
\* provider is still forwarded to the open model connection and an audio delta
\* of the model is still forwarded to the provider.
C16_AudioFlowsWhileWaiting ==
    Waiting =>
        /\ (socket = "open" /\ IsOpen(closure.openaiWs) /\ Len(mediaLog) < MaxMedia)
              => ENABLED (ProviderMedia /\ Len(toModel') = Len(toModel) + 1)
        /\ (socket = "open" /\ IsOpen(closure.openaiWs) /\ audioCount < MaxAudio)
              => ENABLED (ModelAudioDelta("audio")
                          /\ Len(toProvider') = Len(toProvider) + 1)

\* the only function call is still waiting, and meanwhile a media frame went
\* to the model and an audio frame went to the provider
C16_Witness ==
    /\ Len(dispatch) = 1 /\ dispatch[1].pc = "waiting"
    /\ \E i \in DOMAIN toModel : toModel[i].type = "input_audio_buffer.append"
    /\ toProvider # <<>>

\* the audio appends among the messages sent to the model, in the order sent
Appends == SelectSeq(toModel, LAMBDA m : m.type = "input_audio_buffer.append")

\* the event of the model (by arrival number) that a provider frame carries
FrameEvent(f) ==
    IF "payload" \in DOMAIN f THEN f.payload
    ELSE IF "chunk" \in DOMAIN f THEN f.chunk ELSE f.mark

\* C17: the audio appends sent to the model follow the arrival order of the
\* media frames they forward, and the frames sent to the provider follow the
\* arrival order of the model's audio-delta and audio-done events.
C17_ArrivalOrder ==
    /\ \A i, j \in DOMAIN Appends : i < j => Appends[i].audio < Appends[j].audio
    /\ \A i, j \in DOMAIN toProvider :
           i < j => FrameEvent(toProvider[i]) < FrameEvent(toProvider[j])

C17_Witness == Len(Appends) >= 2 /\ Len(toProvider) >= 2

\* C18: a media frame is forwarded to the model exactly when the model
\* connection is open at the moment the frame is handled; a frame handled
\* before the connection opened or after it left the open state is never sent.
C18_ForwardOnlyWhileOpen ==
    {Appends[i].audio : i \in DOMAIN Appends} =
        {n \in DOMAIN mediaLog : mediaLog[n] = "open"}

\* a frame was dropped before the model connection opened, a later one was
\* forwarded
C18_Witness ==
    /\ Len(mediaLog) >= 2
    /\ mediaLog[1] = "connecting" /\ mediaLog[2] = "open"
    /\ Len(Appends) = 1

\* a frame was dropped after the model connection was closed
C18_WitnessAfterClose ==
    /\ Len(mediaLog) >= 2
    /\ mediaLog[1] = "open" /\ mediaLog[2] = "closed"

\* C19: on an Exotel connection the n-th outbound frame carries sequence
\* number n, every audio-done event sends exactly one mark frame, and a frame
\* of another connection leaves this connection's counter and frames alone.
C19_SequenceNumbers ==
    /\ [](env.provider = "exotel" =>
            /\ \A i \in DOMAIN toProvider : toProvider[i].sequence_number = i
            /\ Len(toProvider) <= sequenceNumber[Self])
    /\ [][/\ (ModelAudioDone /\ env.provider = "exotel" /\ socket = "open")
               => /\ Len(toProvider') = Len(toProvider) + 1
                  /\ toProvider'[Len(toProvider')].event = "mark"
                  /\ SubSeq(toProvider', 1, Len(toProvider)) = toProvider
          /\ PeerAudio => /\ sequenceNumber'[Self] = sequenceNumber[Self]
                          /\ toProvider' = toProvider]_vars

\* an Exotel connection has sent a media frame and a mark frame, after a frame
\* of the other connection
C19_Witness ==
    /\ env.provider = "exotel"
    /\ sequenceNumber[Peer] > 0
    /\ \E i, j \in DOMAIN toProvider :
           toProvider[i].event = "media" /\ toProvider[j].event = "mark"

\* C20: after the start event the session's tenant identifier is the one of
\* the URL when the URL carried one, otherwise the one of the start event's
\* custom parameters, for both providers.
C20_TenantFromUrlOrMetadata ==
    [][\A custom \in {Null, "b1"} :
          ProviderStart(custom) =>
              closure'.businessId = IF env.urlBusinessId # Null
                                    THEN env.urlBusinessId ELSE custom]_vars


\* ---- the lifecycle of a call ----

\* the relay has sent the session configuration: the model connection opened
ModelOpened == \E i \in DOMAIN toModel : toModel[i].type = "session.update"

\* neither teardown handler has been entered
NoTeardown == inflight["stop"].pc = "idle" /\ inflight["close"].pc = "idle"

\* case 'start' has run to its end and left no model connection that opened or
\* may still open: the key is missing, or the connection errored before opening
EstablishFailed ==
    /\ inflight["start"].pc = "done" /\ NoTeardown
    /\ ~ModelOpened
    /\ closure.openaiWs \in {Null, "closed"}

\* C21: when the model session cannot be established at the start of a call,
\* the provider connection is closed and no audio frame has been forwarded in
\* either direction.
C21_NoModelNoCall ==
    EstablishFailed =>
        /\ socket \in {"closing", "closed"}
        /\ Appends = <<>>
        /\ toProvider = <<>>

\* the model connection has opened and has then been closed by the other side
ModelDropped == ModelOpened /\ closure.openaiWs = "closed" /\ NoTeardown

\* socket.on('close') has run to its end: the provider connection is closed
\* and the final update of the call record has been issued (when the session
\* holds a record)
CallEnded == socket = "closed" /\ inflight["close"].pc = "done"

\* C22: when the model connection closes or errors in the middle of a call,
\* the call ends: the provider connection is eventually closed and the final
\* update of the call record is eventually issued.
C22_ModelDropEndsCall == ModelDropped ~> CallEnded


\* a teardown handler (case 'stop' or socket.on('close')) has run to its end
TornDown == inflight["stop"].pc = "done" \/ inflight["close"].pc = "done"

ModelGone == closure.openaiWs \notin {"connecting", "open"}

\* C23: after a provider stop event or a close of the provider connection has
\* been handled, the model connection and the provider connection are
\* eventually closed, and a teardown that runs after the call record has been
\* finalized changes nothing in it.
C23_TeardownClosesBoth ==
    /\ TornDown ~> (ModelGone /\ socket = "closed")
    /\ [][finalWrites >= 1 => calls' = calls]_vars


\* a step that handles a message that is not well formed: unparseable JSON, a
\* start event without its start object, a transcript event without its text
MalformedStep ==
    \/ ProviderUnparseable
    \/ ProviderStartNoBody
    \/ ModelUnparseable
    \/ \E role \in Roles : ModelTranscriptNoText(role)

\* C24: a malformed message from the provider or from the model is dropped: it
\* closes neither connection and leaves the session's identifiers, its
\* transcript and the call records unchanged.
C24_MalformedDropped ==
    [][MalformedStep => /\ socket' = socket
                        /\ closure' = closure
                        /\ calls' = calls]_vars


\* the positions of the session configuration and of the greeting directive
\* among the messages sent to the model
Configurations == {i \in DOMAIN toModel : toModel[i].type = "session.update"}
Greetings == {i \in DOMAIN toModel : toModel[i] = Greeting}

\* C25: when the model connection opens the relay sends exactly one
\* session.update and then exactly one greeting response.create, and every
\* audio append to the model comes after the two.
C25_ConfigureThenGreet ==
    /\ (closure.openaiWs = "open" \/ toModel # <<>>)
          => Configurations = {1} /\ Greetings = {2}
    /\ closure.openaiWs \in {Null, "connecting"} => toModel = <<>>
    /\ \A i \in DOMAIN toModel :
          toModel[i].type = "input_audio_buffer.append" => i > 2

\* a media frame handled before the connection opened was dropped, the two
\* directives were sent, and then a media frame was forwarded
C25_Witness ==
    /\ Len(mediaLog) >= 2 /\ mediaLog[1] # "open"
    /\ Len(toModel) = 3
    /\ toModel[3].type = "input_audio_buffer.append"


\* every teardown handler that was entered has run to its end, the close of
\* the provider connection among them
TeardownComplete ==
    /\ inflight["close"].pc = "done"
    /\ inflight["stop"].pc \in {"idle", "done"}

\* C26: the transcript of a session only grows, one speaker-tagged entry per
\* transcript event and at its end, and once teardown is complete the
\* finalized call record holds all entries in the order of their events.
C26_TranscriptPersisted ==
    /\ [][/\ \/ closure'.transcript = closure.transcript
             \/ /\ Len(closure'.transcript) = Len(closure.transcript) + 1
                /\ SubSeq(closure'.transcript, 1, Len(closure.transcript))
                       = closure.transcript
          /\ \A role \in Roles :
                ModelTranscript(role)
                    => closure'.transcript = Append(closure.transcript, role)]_vars
    /\ []((/\ TeardownComplete /\ closure.callId # Null
            /\ calls[closure.callId].ended_at # Null)
            => calls[closure.callId].transcript = closure.transcript)


\* ---- the outcome of the call ----

\* the rows of calls that carry the provider's call id of this call
RowsOfCall == {c \in DOMAIN calls : calls[c].call_sid = CallSid}

\* a tool call of a stream session has returned
StreamDone(p, op) ==
    /\ task[p].pc = "done" /\ task[p].flavor = "stream" /\ task[p].op = op
    /\ "success" \in DOMAIN task[p].result

\* C27, for a session that holds the id of its call record: a book_appointment
\* dispatch that returns success has marked the outcome of that record as
\* booked, and no step of a dispatch that returns failure changes a call record.
C27_BookedOutcome ==
    /\ [](\A p \in Callers :
            (/\ StreamDone(p, "book_appointment") /\ task[p].result.success
             /\ task[p].call_id # Null)
                => calls[task[p].call_id].outcome = "booked")
    /\ [][calls' # calls =>
            \E p \in Callers : /\ task'[p].op = "book_appointment"
                               /\ task'[p].pc = "done"
                               /\ task'[p].result.success
                               /\ calls' = [calls EXCEPT ![task[p].call_id].outcome = "booked"]]_vars

\* a successful booking of a session with a call record, after a failed one
C27_Witness ==
    \E p \in Callers :
        /\ StreamDone(p, "book_appointment") /\ task[p].result.success
        /\ task[p].call_id # Null
        /\ calls[task[p].call_id].outcome = "booked"

\* a booking that failed
C27_WitnessFailure ==
    \E p \in Callers :
        /\ StreamDone(p, "book_appointment") /\ ~task[p].result.success
        /\ task[p].call_id # Null

\* C27: a book_appointment dispatch that returns success has marked the
\* outcome of the originating call, a record of which exists, as booked; a step
\* of a dispatch that does not return success leaves the call records unchanged.
C27_CallMarkedBooked ==
    /\ [](\A p \in Callers :
            (/\ StreamDone(p, "book_appointment") /\ task[p].result.success
             /\ RowsOfCall # {})
                => \E c \in RowsOfCall : calls[c].outcome = "booked")
    /\ [][\A p \in Callers :
            (/\ task'[p] # task[p] /\ task'[p].op = "book_appointment"
             /\ ~(task'[p].pc = "done" /\ task'[p].result.success))
                => calls' = calls]_vars

\* C28: a cancel_appointment dispatch of a stream session that returns success
\* has marked the outcome of the session's call record as cancelled.
C28_CancelledOutcome ==
    \A p \in Callers :
        (/\ StreamDone(p, "cancel_appointment") /\ task[p].result.success
         /\ task[p].call_id # Null)
            => calls[task[p].call_id].outcome = "cancelled"


\* C29: a call-record write that fails does not prevent teardown and does not
\* stop the relay: the stop handler whose update failed still closes the model
\* connection, the close handler closes the model connection whatever its
\* update returns, the provider connection stays closed, and a session whose
\* insert at start failed still connects to the model and forwards audio.
C29_WriteFailureHarmless ==
    /\ [][/\ StopUpdateFails => closure'.openaiWs \notin {"connecting", "open"}
          /\ SocketClose => /\ socket' = "closed"
                            /\ closure'.openaiWs \notin {"connecting", "open"}
          /\ CloseUpdateFails => socket' = "closed" /\ closure' = closure
          /\ (StartInsertCall(FALSE) /\ env.OPENAI_API_KEY)
                => closure'.openaiWs = "connecting" /\ socket' = socket]_vars
    /\ []((/\ inflight["start"].pc = "done" /\ closure.callId = Null
           /\ socket = "open" /\ IsOpen(closure.openaiWs))
            => /\ Len(mediaLog) < MaxMedia
                   => ENABLED (ProviderMedia /\ Len(toModel') = Len(toModel) + 1)
               /\ audioCount < MaxAudio
                   => ENABLED (ModelAudioDelta("audio")
                               /\ Len(toProvider') = Len(toProvider) + 1))

\* the insert at start failed, audio went both ways, and the stop handler, which
\* had no record to update, closed the model connection
C29_Witness ==
    /\ closure.callId = Null
    /\ Appends # <<>> /\ toProvider # <<>>
    /\ inflight["stop"].pc = "done"
    /\ closure.openaiWs = "closed"

\* the final update of the stop handler failed: the record is not finalized,
\* the model connection is closed, the provider connection has closed
C29_WitnessUpdateFailed ==
    /\ closure.callId # Null /\ calls[closure.callId].ended_at = Null
    /\ ModelOpened
    /\ inflight["stop"].pc = "done" /\ inflight["close"].pc = "done"
    /\ closure.openaiWs = "closed" /\ socket = "closed"


\* the model connections the session has created
ModelConnections ==
    Len(replaced) + (IF closure.openaiWs # Null THEN 1 ELSE 0)

\* C30: whatever the provider sends on a connection, a repeated start event
\* included, the session creates at most one model connection, and no model
\* connection is left connecting or open without a reference to it.
C30_OneModelConnection ==
    /\ ModelConnections <= 1
    /\ \A i \in DOMAIN replaced : replaced[i] \notin {"connecting", "open"}


\* ---- the end of a call ----

\* a model connection is created or opens in this step
ModelConnects ==
    /\ closure'.openaiWs # closure.openaiWs
    /\ closure'.openaiWs \in {"connecting", "open"}

\* C31: Closed is terminal.  Once a stop event or the close of the provider
\* connection has been handled, no later step creates or opens a model
\* connection, forwards audio in either direction, or writes a call record.
C31_ClosedTerminal ==
    [][TornDown => /\ ~ModelConnects
                   /\ toModel' = toModel
                   /\ toProvider' = toProvider
                   /\ calls' = calls]_vars


\* ---- the scheduling engine: what a tool call leaves for the next one ----

\* C32: after book_appointment(date, time) has returned success, a
\* check_availability of that date for the same tenant, by either engine, does
\* not list that time, whatever the time zones of the tenant and the process.
C32_BookedSlotTaken ==
    \A p \in Callers :
        (BookDone(task[p]) /\ task[p].result.success)
            => LET f == task[p]
               IN  /\ ~Listed(CheckAvailability(appointments, f.business_id, f.date), f.time)
                   /\ ~Listed(StreamCheckAvailability(appointments, f.business_id, f.date),
                              f.time)


\* case 'start' runs to its end in this step
StartFinishes == inflight["start"].pc # "done" /\ inflight'["start"].pc = "done"

\* the provider connection closed while case 'start' was awaiting (case 'start'
\* is entered on an open connection only), with or without a stop event before
\* the close, and the teardown handlers have run to their ends
TornDownDuringStart ==
    /\ inflight["start"].pc \in {"fetch_business", "insert_call"}
    /\ TeardownComplete

\* every call record the session created has its end timestamp
RecordsEnded ==
    \A c \in DOMAIN calls \ CallIds : calls[c].ended_at # Null

\* C33: when the provider connection closes while case 'start' is awaiting
\* (after a stop event or without one), then once case 'start' has finished,
\* the last handler to do so, the session holds no model connection that is
\* connecting or open, and every call record it created has its end timestamp.
C33_TeardownDuringStart ==
    [][(TornDownDuringStart /\ StartFinishes) => (ModelGone' /\ RecordsEnded')]_vars


\* ---- the relay: every function call is answered ----

\* the handler invocation of function call k has run to its end
Handled(k) == dispatch[k].pc # "waiting"

\* a function-output item for the call id of function call k has been sent
Answered(k) ==
    \E i \in DOMAIN toModel :
        /\ toModel[i].type = "conversation.item.create"
        /\ toModel[i].call_id = dispatch[k].call_id

\* C34: every function-call event of the model whose handler has run to its
\* end while the model connection was open has been answered with a
\* function-output item for its call id: also when the operation is unknown,
\* when the arguments are not valid JSON and when the scheduling engine fails.
C34_EveryCallAnswered ==
    \A k \in DOMAIN dispatch :
        (Handled(k) /\ dispatch[k].ws = "open") => Answered(k)


\* the clock time, in the tenant's time zone, at which row a starts
LocalTime(a) ==
    FormatHM((a.scheduled_at + businesses[a.business_id].timezone) % MinutesPerDay)

\* no confirmed or pending row of the tenant in `store` overlaps row a
SlotFree(store, a) ==
    \A x \in ActiveRows(store, a.business_id) : ~RowsOverlap(x, a)

\* C35: after cancel_appointment has succeeded, a check_availability of the
\* date of a cancelled appointment, by either engine, lists the time of that
\* appointment again, provided the appointment was at a slot of the tenant's
\* grid and no other confirmed or pending appointment overlaps it.
C35_CancelFreesSlot ==
    \A p \in Callers :
        (CancelDone(task[p]) /\ task[p].result.success)
            => \A a \in task[p].pre \ appointments :
                (/\ WithinBusinessHours(a.business_id, LocalDate(a), LocalTime(a))
                 /\ SlotFree(appointments, a))
                    => /\ Listed(CheckAvailability(appointments, a.business_id,
                                                   LocalDate(a)), LocalTime(a))
                       /\ Listed(StreamCheckAvailability(appointments, a.business_id,
                                                         LocalDate(a)), LocalTime(a))


\* ---- the call record of a call ----

\* C36: a call that came through the incoming-call webhook and whose start
\* event has been handled has exactly one call record, and the stream session
\* holds the id of that record.
C36_OneRecordPerCall ==
    (WebhookCallId \in DOMAIN calls /\ inflight["start"].pc = "done")
        => /\ Cardinality(RowsOfCall) = 1
           /\ closure.callId \in RowsOfCall


\* ---- concurrent bookings of one customer ----

\* C37: whatever the interleaving of concurrent book_appointment calls for one
\* tenant and phone, once a call has returned success the tenant has exactly
\* one customer row with that phone and the appointment the call created
\* carries the id of that row.
C37_OneCustomerRow ==
    \A p \in Callers :
        (BookDone(task[p]) /\ task[p].result.success)
            => LET f == task[p]
                   rows == CustomersOf(customers, f.business_id, f.customer_phone)
               IN  /\ Cardinality(rows) = 1
                   /\ \A a \in appointments :
                        a.id = f.appointment_id
                            => \E c \in rows : a.customer_id = c.id


\* ---- reschedule_appointment ----

RescheduleDone(f) == f.op = "reschedule_appointment" /\ f.pc = "done"

\* C38: rescheduleAppointment is all-or-nothing.  When it returns a failure,
\* every appointment that was confirmed before the call is confirmed after
\* it; when it returns success, exactly one of the earlier appointments has
\* been cancelled.
C38_RescheduleAllOrNothing ==
    \A p \in Callers :
        RescheduleDone(task[p])
            => IF task[p].result.success
               THEN Cardinality(task[p].pre \ appointments) = 1
               ELSE \A a \in task[p].pre : a.status = "confirmed" => a \in appointments


(***************************************************************************)
(* The direct passthrough of realtimeHandler.js: a client's websocket      *)
(* (socket) joined to a connection to the model (openaiWs).  For this      *)
(* handler toProvider holds the socket.send calls, toModel the             *)
(* openaiWs.send calls, mediaLog the state of openaiWs at each message of  *)
(* the client and audioCount the number of messages of the model.          *)
(***************************************************************************)
\* message.toString(): the text of the frame; what is sent is a text frame
MessageToString(frame) == [frame EXCEPT !.binary = FALSE]

\* handleRealtimeStream has returned: openaiWs is connecting and every
\* handler is registered
RealtimeInit ==
    /\ serverTz = 0
    /\ businesses = [b \in BusinessIds |->
                        [timezone |-> 0, slot_duration_minutes |-> 30,
                         buffer_minutes |-> 10, working_hours |-> WeekDefault]]
    /\ blackout = {}
    /\ appointments = {}
    /\ customers = {}
    /\ calls = [c \in CallIds |-> CallRow]
    /\ task = [p \in {} |-> IdleFrame]
    /\ \E key \in BOOLEAN, b \in {Null, "b1"} :
            env = [provider |-> "realtime", OPENAI_API_KEY |-> key, urlBusinessId |-> b]
    /\ socket = "open"
    /\ closure = [businessId |-> env.urlBusinessId, openaiWs |-> "connecting"]
    /\ inflight = [h \in Handlers |-> IdleHandler]
    /\ finalWrites = 0
    /\ toModel = <<>>
    /\ toProvider = <<>>
    /\ dispatch = <<>>
    /\ mediaLog = <<>>
    /\ audioCount = 0
    /\ sequenceNumber = [c \in Connections |-> 0]
    /\ replaced = <<>>

\* openaiWs.on('open'): the endpoint accepts the key; the client is notified
RealtimeModelOpen ==
    /\ closure.openaiWs = "connecting" /\ env.OPENAI_API_KEY
    /\ closure' = [closure EXCEPT !.openaiWs = "open"]
    /\ toProvider' = Append(toProvider, [type |-> "connection.ready", n |-> 0,
                                         binary |-> FALSE])
    /\ UNCHANGED <<schedVars, env, socket, inflight, finalWrites, toModel, dispatch,
                   mediaLog, audioCount, sequenceNumber, replaced>>

\* openaiWs.on('message'): messages arrive until the connection has closed
RealtimeModelMessage(binary) ==
    /\ closure.openaiWs \in {"open", "closing"} /\ audioCount < MaxAudio
    /\ audioCount' = audioCount + 1
    /\ toProvider' = Append(toProvider,
                            MessageToString([type |-> "model", n |-> audioCount + 1,
                                             binary |-> binary]))
    /\ UNCHANGED <<schedVars, env, socket, closure, inflight, finalWrites, toModel,
                   dispatch, mediaLog, sequenceNumber, replaced>>

\* openaiWs.on('close'), after a refused handshake, a close of the endpoint
\* or the end of a close this side began: socket.close()
RealtimeModelCloseOnly ==
    /\ closure.openaiWs \in {"connecting", "open", "closing"}
    /\ closure' = [closure EXCEPT !.openaiWs = "closed"]
    /\ UNCHANGED <<schedVars, env, socket, inflight, finalWrites, toModel, toProvider,
                   dispatch, mediaLog, audioCount, sequenceNumber, replaced>>
RealtimeModelClose ==
    /\ closure.openaiWs \in {"connecting", "open", "closing"}
    /\ closure' = [closure EXCEPT !.openaiWs = "closed"]
    /\ socket' = IF socket = "open" THEN "closing" ELSE socket
    /\ UNCHANGED <<schedVars, env, inflight, finalWrites, toModel, toProvider,
                   dispatch, mediaLog, audioCount, sequenceNumber, replaced>>

\* socket.on('message'): forwarded when openaiWs.readyState is OPEN
RealtimeClientMessage(binary) ==
    /\ socket \in {"open", "closing"} /\ Len(mediaLog) < MaxMedia
    /\ mediaLog' = Append(mediaLog, closure.openaiWs)
    /\ toModel' = IF closure.openaiWs = "open"
                  THEN Append(toModel, MessageToString([type |-> "client",
                                                        n |-> Len(mediaLog) + 1,
                                                        binary |-> binary]))
                  ELSE toModel
    /\ UNCHANGED <<schedVars, env, socket, closure, inflight, finalWrites, toProvider,
                   dispatch, audioCount, sequenceNumber, replaced>>

\* socket.on('close'): openaiWs.close(), which aborts a handshake in progress
\* and starts the closing handshake of an open connection
RealtimeClientClose ==
    /\ socket \in {"open", "closing"}
    /\ socket' = "closed"
    /\ closure' = IF closure.openaiWs \in {"connecting", "open"}
                  THEN [closure EXCEPT !.openaiWs = "closing"]
                  ELSE closure
    /\ UNCHANGED <<schedVars, env, inflight, finalWrites, toModel, toProvider,
                   dispatch, mediaLog, audioCount, sequenceNumber, replaced>>

RealtimeNext ==
    \/ RealtimeModelOpen
    \/ \E binary \in BOOLEAN : RealtimeModelMessage(binary)
    \/ RealtimeModelClose
    \/ \E binary \in BOOLEAN : RealtimeClientMessage(binary)
    \/ RealtimeClientClose

\* a close that this process began completes: the peer answers the close
\* frame or the timer of the websocket library destroys the connection
SpecRealtime ==
    /\ RealtimeInit
    /\ [][RealtimeNext]_vars
    /\ WF_vars(closure.openaiWs = "closing" /\ RealtimeModelClose)
    /\ WF_vars(socket = "closing" /\ RealtimeClientClose)

ModelFrames == SelectSeq(toProvider, LAMBDA f : f.type = "model")

====
